---- MODULE Spec2Model ----
(***************************************************************************)
(* A model of the LOXR tree-walking interpreter: the environment chain     *)
(* (interpreter/environment.rs), the statement executor                    *)
(* (interpreter/mod.rs) and the recursive-descent parser (parser/mod.rs).  *)
(*                                                                         *)
(* Scopes are Rc<RefCell<Environment>> handles.  The model keeps a heap of *)
(* cells; a handle is a cell index, and the content of a cell is the       *)
(* Environment record stored in the RefCell.  RefCell::swap exchanges the  *)
(* contents of two cells, it does not re-point a handle.                   *)
(***************************************************************************)
EXTENDS Integers, Sequences, FiniteSets, TLC

\* ------------------------------------------------------------------------
\* Bounds
\* ------------------------------------------------------------------------
MaxCells == 3        \* scopes allocated in the environment specification
MaxVal == 1          \* numbers 1..MaxVal are the non-Nil values stored
MaxOps == 3          \* define/get/put calls made in the environment specification

\* ------------------------------------------------------------------------
\* Values (parser/value.rs)
\* ------------------------------------------------------------------------
Nil == [t |-> "nil", v |-> 0]
Num(n) == [t |-> "num", v |-> n]
Bool(b) == [t |-> "bool", v |-> IF b THEN 1 ELSE 0]
Str(n) == [t |-> "str", v |-> n]
\* the marker for a key that a HashMap does not hold
Absent == [t |-> "absent", v |-> 0]

Names == {"x", "y"}
StoredVals == {Nil} \cup {Num(n) : n \in 1..MaxVal}

\* ------------------------------------------------------------------------
\* Environment (interpreter/environment.rs)
\* ------------------------------------------------------------------------
NoEnv == 0           \* enclosing: None

EmptyValues == [n \in Names |-> Absent]

\* impl Default for Environment.  The in_loop field is the flag that
\* interpreter/mod.rs reads with in_loop(); environment.rs never sets it.
DefaultEnvironment ==
    [values |-> EmptyValues, enclosing |-> NoEnv, is_global |-> TRUE,
     in_loop |-> FALSE]

\* Environment::enclosed_by
enclosed_by(p) ==
    [values |-> EmptyValues, enclosing |-> p, is_global |-> FALSE,
     in_loop |-> FALSE]

\* Environment::loop_enclosed_by, called by Interpreter::execute
loop_enclosed_by(p) ==
    [values |-> EmptyValues, enclosing |-> p, is_global |-> FALSE,
     in_loop |-> TRUE]

\* HashMap::contains_key on the values of a cell
ContainsKey(hp, c, n) == hp[c].values[n] # Absent

\* HashMap::insert on the values of a cell
Insert(hp, c, n, val) ==
    [hp EXCEPT ![c].values = [@ EXCEPT ![n] = val]]

\* RefCell::swap: the two cells exchange the Environment they hold
Swap(hp, a, b) == [hp EXCEPT ![a] = hp[b], ![b] = hp[a]]

\* a define that keeps an existing binding (entry().or_insert)
DefineKeepsOld(hp, h, n, val) ==
    IF ContainsKey(hp, h, n) THEN hp ELSE Insert(hp, h, n, val)

\* Memory::define
DefineHeap(hp, h, n, val) == Insert(hp, h, n, val)

\* Results of get: Ok(Some(v)), Ok(None), Err(UncaughtReference), or the
\* call does not return (a RefCell borrow panic, or unbounded recursion).
GetOk(val) == [k |-> "ok", v |-> val]
GetNone == [k |-> "none", v |-> Nil]
GetErr == [k |-> "err", v |-> Nil]
GetPanic == [k |-> "panic", v |-> Nil]
GetOverflow == [k |-> "overflow", v |-> Nil]

\* the match on values.get(&name) of one cell
LookupHere(hp, c, n) ==
    IF hp[c].values[n] = Absent THEN GetErr
    ELSE IF hp[c].values[n] = Nil THEN GetNone
    ELSE GetOk(hp[c].values[n])

\* Memory::get.  `onstack` holds the cells whose get is already on the call
\* stack (each of them missed the name and recursed into its enclosing
\* cell); reaching one of them again recurses without end.
RECURSIVE GetRec(_, _, _, _)
GetRec(hp, h, n, onstack) ==
    IF hp[h].values[n] # Absent THEN LookupHere(hp, h, n)
    ELSE IF hp[h].enclosing # NoEnv
    THEN LET e == hp[h].enclosing
         IN  IF e \in onstack \cup {h} THEN GetOverflow
             ELSE LET r == GetRec(hp, e, n, onstack \cup {h})
                  IN  IF r.k \in {"ok", "none", "panic", "overflow"} THEN r
                      \* Err from the enclosing cell: current_env.swap(encl_env)
                      \* while current_env.borrow() is alive
                      ELSE GetPanic
    ELSE IF ~hp[h].is_global THEN GetPanic
         ELSE LookupHere(hp, h, n)

Get(hp, h, n) == GetRec(hp, h, n, {})

\* Results of put: Ok(()), Err(UndefinedVar), or the call does not return
\* (a RefCell borrow panic, a failed assertion, or the overflow of
\* upgrade_scope: a panic in a debug build, an endless loop in a release
\* build).
PutRes(hp, r) == [heap |-> hp, k |-> r]

I32Max == 2147483647

\* the loop of Memory::put, one call per iteration.  cur is current_env,
\* prev is previous (NoEnv while it still is the fresh default cell),
\* up is upgrade_scope.
RECURSIVE PutLoop(_, _, _, _, _, _)
PutLoop(hp, cur, prev, up, n, val) ==
    IF up >= 1 /\ cur = prev THEN PutRes(hp, "panic")
    ELSE
    LET h1 == IF up >= 1 THEN Swap(hp, cur, prev) ELSE hp
        e == h1[cur].enclosing
    IN  IF e # NoEnv
        THEN IF up = 0 THEN PutLoop(h1, cur, e, 1, n, val)
             ELSE IF ContainsKey(h1, e, n)
             THEN \* encl_env.borrow_mut() under current_env.borrow()
                  IF e = cur THEN PutRes(h1, "panic")
                  ELSE PutRes(Insert(h1, e, n, val), "ok")
             ELSE IF up > I32Max \div 2 THEN PutRes(h1, "panic")
                  ELSE PutLoop(h1, cur, e, up + up, n, val)
        ELSE IF ~h1[cur].is_global THEN PutRes(h1, "panic")
             ELSE IF ContainsKey(h1, cur, n)
                  THEN PutRes(Insert(h1, cur, n, val), "ok")
                  ELSE PutRes(h1, "err")

\* a put that looks for the name in the enclosing scope before its own
PutEnclosingFirst(hp, h, n, val) ==
    IF hp[h].enclosing # NoEnv /\ ContainsKey(hp, hp[h].enclosing, n)
    THEN PutRes(Insert(hp, hp[h].enclosing, n, val), "ok")
    ELSE IF ContainsKey(hp, h, n) THEN PutRes(Insert(hp, h, n, val), "ok")
    ELSE PutLoop(hp, h, NoEnv, 0, n, val)

\* Memory::put
Put(hp, h, n, val) ==
    IF ContainsKey(hp, h, n) THEN PutRes(Insert(hp, h, n, val), "ok")
    ELSE PutLoop(hp, h, NoEnv, 0, n, val)

\* ------------------------------------------------------------------------
\* State
\* ------------------------------------------------------------------------
VARIABLES
    heap,       \* the RefCell<Environment> cells, indexed by handle
    made,       \* ghost: the enclosing handle each cell was created with
    last,       \* the last Memory operation: its arguments, the heap it
                \* was called on, and its result
    crashed,    \* the process has panicked or overflowed its stack
    nops,       \* the number of Memory operations made so far
    prog,       \* Interpreter::stmts, the parsed program
    pc,         \* the index of the next top-level statement of interpret
    out,        \* what execution has done so far: statements entered,
                \* values printed, errors reported, loops left
    results,    \* the ValueResult of each top-level statement executed
    previous,   \* Interpreter::previous, the index kept for the REPL
    parser,     \* the Parser: its tokens, position and error bookkeeping
    parsed,     \* the statements Parser::parse has collected so far
    pstatus,    \* where parse is: "idle", "parsing", "done", "panic", "hang"
    consumed,   \* the number of tokens each round of parse has consumed
    scanner     \* the Scanner: its source, offsets, tokens and where
                \* scan_tokens is: "idle", "scanning", "done", "panic", "hang"

envVars == <<made, last, nops>>
runVars == <<prog, pc, out, results, previous>>
parseVars == <<parser, parsed, pstatus, consumed>>
scanVars == <<scanner>>
vars == <<heap, made, last, crashed, nops, prog, pc, out, results, previous,
          parser, parsed, pstatus, consumed, scanner>>

GlobalCell == 1

\* no Scanner yet
IdleScanner ==
    [source |-> <<>>, current |-> 0, start |-> 0, tokens |-> <<>>,
     status |-> "idle"]

\* the Parser before any tokens are given to it
IdleParser ==
    [tokens |-> <<>>, current |-> 0,
     previous |-> [type |-> "None", lexeme |-> ""],
     error_production |-> <<>>, parser_corrupt |-> FALSE, stalled |-> FALSE]

Cells == 1..Len(heap)

\* the cell that a walk from h outward along the enclosing links meets
\* first among those holding n (NoEnv when there is none)
RECURSIVE NearestOwnerRec(_, _, _, _)
NearestOwnerRec(hp, h, n, seen) ==
    IF h = NoEnv \/ h \in seen THEN NoEnv
    ELSE IF hp[h].values[n] # Absent THEN h
    ELSE NearestOwnerRec(hp, hp[h].enclosing, n, seen \cup {h})

NearestOwner(hp, h, n) == NearestOwnerRec(hp, h, n, {})

\* the walk from h along the enclosing links visits no cell twice and ends
\* at a cell without enclosing scope that is flagged global
RECURSIVE ProperChainRec(_, _, _)
ProperChainRec(hp, h, seen) ==
    IF h \in seen THEN FALSE
    ELSE IF hp[h].enclosing = NoEnv THEN hp[h].is_global
    ELSE ~hp[h].is_global /\ ProperChainRec(hp, hp[h].enclosing, seen \cup {h})

ProperChain(hp, h) == ProperChainRec(hp, h, {})

NoOp == [op |-> "none", h |-> 0, n |-> "x", v |-> Nil, k |-> "ok",
         r |-> Nil, pre |-> <<>>, owner |-> NoEnv, proper |-> FALSE,
         rt |-> Absent]

\* the record of one Memory operation called on the current heap: its
\* arguments and result, the heap it was called on, the nearest owner of the
\* name and the shape of the chain at the time of the call, and, for a get
\* that directly follows a define of the same name on the same scope, the
\* value that was defined
OpRecord(op, h, n, val, k, r) ==
    [op |-> op, h |-> h, n |-> n, v |-> val, k |-> k, r |-> r,
     pre |-> heap, owner |-> NearestOwner(heap, h, n),
     proper |-> ProperChain(heap, h),
     rt |-> IF op = "get" /\ last.op = "define" /\ last.h = h /\ last.n = n
            THEN last.v ELSE Absent]

\* ------------------------------------------------------------------------
\* The environment chain driven by arbitrary calls
\* ------------------------------------------------------------------------
InitEnv ==
    /\ heap = <<DefaultEnvironment>>
    /\ made = <<NoEnv>>
    /\ last = NoOp
    /\ crashed = FALSE
    /\ nops = 0
    /\ prog = <<>> /\ pc = 0 /\ out = <<>> /\ results = <<>> /\ previous = 0
    /\ parser = IdleParser /\ parsed = <<>> /\ pstatus = "idle" /\ consumed = <<>>
    /\ scanner = IdleScanner

\* Rc::new(RefCell::new(Environment::enclosed_by(p)))
EnvEnclose(p) ==
    /\ ~crashed
    /\ Len(heap) < MaxCells
    /\ heap' = Append(heap, enclosed_by(p))
    /\ made' = Append(made, p)
    /\ last' = [NoOp EXCEPT !.op = "enclose", !.h = Len(heap) + 1,
                            !.pre = heap]
    /\ UNCHANGED <<crashed, nops, runVars, parseVars, scanVars>>

EnvDefine(h, n, val) ==
    /\ ~crashed
    /\ nops < MaxOps
    /\ nops' = nops + 1
    /\ heap' = DefineHeap(heap, h, n, val)
    /\ last' = OpRecord("define", h, n, val, "ok", Nil)
    /\ UNCHANGED <<made, crashed, runVars, parseVars, scanVars>>

EnvGet(h, n) ==
    /\ ~crashed
    /\ nops < MaxOps
    /\ nops' = nops + 1
    /\ LET g == Get(heap, h, n)
       IN  /\ last' = OpRecord("get", h, n, Nil, g.k, g.v)
           /\ crashed' = (g.k \in {"panic", "overflow"})
    /\ UNCHANGED <<heap, made, runVars, parseVars, scanVars>>

EnvPut(h, n, val) ==
    /\ ~crashed
    /\ nops < MaxOps
    /\ nops' = nops + 1
    /\ LET p == Put(heap, h, n, val)
       IN  /\ heap' = p.heap
           /\ last' = OpRecord("put", h, n, val, p.k, Nil)
           /\ crashed' = (p.k = "panic")
    /\ UNCHANGED <<made, runVars, parseVars, scanVars>>

NextEnv ==
    \/ \E p \in Cells : EnvEnclose(p)
    \/ \E h \in Cells, n \in Names, val \in StoredVals : EnvDefine(h, n, val)
    \/ \E h \in Cells, n \in Names : EnvGet(h, n)
    \/ \E h \in Cells, n \in Names, val \in StoredVals : EnvPut(h, n, val)

SpecEnv == InitEnv /\ [][NextEnv]_vars

\* ------------------------------------------------------------------------
\* Claims on the environment chain (checked under SpecEnv)
\* ------------------------------------------------------------------------

\* every binding except the one of name n in cell c is as it was in `before`
OnlyChanged(before, after, c, n) ==
    /\ Len(after) = Len(before)
    /\ \A d \in 1..Len(before) :
        /\ after[d].enclosing = before[d].enclosing
        /\ after[d].is_global = before[d].is_global
        /\ \A m \in Names :
              (d # c \/ m # n) => after[d].values[m] = before[d].values[m]

\* C2: put(name, value) on a scope of a well-formed chain overwrites name in
\* the nearest scope of the chain that holds it, changes no other binding
\* of any scope and creates none, whichever scope of the chain owns it.
C2_PutOverwritesNearest ==
    (last.op = "put" /\ last.proper /\ last.owner # NoEnv) =>
        /\ last.k = "ok"
        /\ heap[last.owner].values[last.n] = last.v
        /\ OnlyChanged(last.pre, heap, last.owner, last.n)

\* C3: put on a name that no scope of the chain holds fails with
\* UndefinedVar and leaves every scope (bindings and parent link) as it was.
C3_PutUndeclaredFailsClean ==
    (last.op = "put" /\ last.proper /\ last.owner = NoEnv) =>
        /\ last.k = "err"
        /\ heap = last.pre

\* C4: get on a scope of a well-formed chain returns the binding of the
\* nearest scope holding the name (Ok(None) standing for a Nil binding), and
\* returns the undefined-reference error, without crashing, exactly when no
\* scope of the chain holds it.
C4_GetWalksChain ==
    (last.op = "get" /\ last.proper) =>
        IF last.owner # NoEnv
        THEN LET b == last.pre[last.owner].values[last.n]
             IN  IF b = Nil THEN last.k = "none"
                 ELSE last.k = "ok" /\ last.r = b
        ELSE last.k = "err"

\* C5 as stated: a get that follows define(x, v) on the same scope returns
\* Ok(Some(v)) for every v, Nil included.
C5_RoundTripAnyValue ==
    (last.op = "get" /\ last.rt # Absent) =>
        (last.k = "ok" /\ last.r = last.rt)

\* C5 as amended: a get that follows define(x, v) on the same scope returns
\* Ok(Some(v)) when v is not Nil and Ok(None) when v is Nil, also when x was
\* bound before; define changes the binding of x in the scope it is called
\* on and nothing else in any scope.
C5_RoundTrip ==
    /\ (last.op = "get" /\ last.rt # Absent) =>
          IF last.rt = Nil THEN last.k = "none"
          ELSE last.k = "ok" /\ last.r = last.rt
    /\ last.op = "define" =>
          /\ heap[last.h].values[last.n] = last.v
          /\ OnlyChanged(last.pre, heap, last.h, last.n)

\* a get directly after define(x, 1) on a scope below the global scope,
\* while the global scope binds the same name to Nil
C5_Witness ==
    /\ last.op = "get" /\ last.rt = Num(1) /\ last.k = "ok"
    /\ last.h # GlobalCell
    /\ heap[GlobalCell].values[last.n] = Nil

\* C6: when two scopes were created with the same enclosing scope, a put
\* made through one of them on a variable owned by that shared scope (or by
\* the global scope) is seen by a get through the other one.
C6_AliasesObservePut ==
    [][ ( /\ last.op = "put" /\ last.k = "ok" /\ last.proper
          /\ last'.op = "get" /\ last'.n = last.n
          /\ last'.h # last.h
          /\ made[last.h] # NoEnv /\ made[last'.h] = made[last.h]
          /\ last.pre[last.h].enclosing = made[last.h]
          /\ last.pre[last'.h].enclosing = made[last.h]
          /\ last.pre[last'.h].values[last.n] = Absent
          /\ last.owner \in {made[last.h], GlobalCell} )
        => IF last.v = Nil THEN last'.k = "none"
           ELSE last'.k = "ok" /\ last'.r = last.v ]_vars

\* ------------------------------------------------------------------
\* Expressions, statements and the tree-walking evaluator.
\* ------------------------------------------------------------------

\* Value::Break, what a break statement inside a loop evaluates to
Break == [t |-> "break", v |-> 0]

\* Value::is_truthy: false and nil are falsey, everything else is truthy
is_truthy(val) ==
    IF val.t = "bool" THEN val.v = 1
    ELSE IF val.t = "nil" THEN FALSE
    ELSE TRUE

\* Expression::Lit, Variable, Assignment, BinExpr
Lit(val) == [x |-> "lit", val |-> val]
Variable(n) == [x |-> "var", name |-> n]
Assignment(n, rhs) == [x |-> "assign", name |-> n, right |-> rhs]
BinExpr(l, o, r) == [x |-> "bin", left |-> l, operator |-> o, right |-> r]
Call(callee, args) == [x |-> "call", callee |-> callee, args |-> args]
CommaExpr(items) == [x |-> "comma", items |-> items]
NoExpr == [x |-> "none"]
\* Expression::LogicAnd(AndExpr), Expression::LogicOr(OrExpr)
LogicAnd(l, r) == [x |-> "and", left |-> l, right |-> r]
LogicOr(l, r) == [x |-> "or", left |-> l, right |-> r]

\* Stmt; id numbers the statements of one top-level statement
ExprStmt(i, e) == [s |-> "expr", id |-> i, e |-> e]
PrintStmt(i, e) == [s |-> "print", id |-> i, e |-> e]
ErrStmt(i) == [s |-> "err", id |-> i]
EmptyStmt(i) == [s |-> "empty", id |-> i]
Block(i, stmts) == [s |-> "block", id |-> i, stmts |-> stmts]
NoStmt == [s |-> "none", id |-> 0]
IfStmt(i, c, t, e) ==
    [s |-> "if", id |-> i, condition |-> c, then_ |-> t, else_ |-> e]
While(i, c, b) == [s |-> "while", id |-> i, condition |-> c, body |-> b]
VarDecl(i, n, init) ==
    [s |-> "vardecl", id |-> i, name |-> n, initializer |-> init]
BreakStmt(i) == [s |-> "break", id |-> i]

\* The state an evaluation threads through: the scopes and the log.
RunState(hp, o) == [heap |-> hp, out |-> o]

\* A ValueResult together with the state it leaves: k is "val" for Ok,
\* "err" for Err, "crash" for a panic or stack overflow and "hang" for a
\* computation that does not return.
Res(st, k, val, e) == [st |-> st, k |-> k, v |-> val, err |-> e]
Ok(st, val) == Res(st, "val", val, "")
Err(st, e) == Res(st, "err", Nil, e)
Crash(st) == Res(st, "crash", Nil, "")

\* BinaryExpr::eval on the numeric operators (string operands do not
\* occur in the programs explored); doubles are modelled by integers and
\* a quotient by its integer part.
BinaryOp(st, o, l, r) ==
    IF o \notin {"MINUS", "SLASH", "STAR", "PLUS"}
    THEN Err(st, "InvalidExpr")
    ELSE IF l.t # "num" \/ r.t # "num" THEN Err(st, "InvalidExpr")
    ELSE IF o = "MINUS" THEN Ok(st, Num(l.v - r.v))
    ELSE IF o = "STAR" THEN Ok(st, Num(l.v * r.v))
    ELSE IF o = "PLUS" THEN Ok(st, Num(l.v + r.v))
    ELSE IF r.v = 0 THEN Err(st, "DivideByZero")
    ELSE Ok(st, Num(l.v \div r.v))

\* One entry of the log: a statement entered ("exec"), a value printed
\* with ">>" ("print"), an error reported on stderr ("report"), the outcome
\* of a break statement ("break"), a while statement returning ("endwhile")
\* or testing its condition ("test"), and the steps of a call and of a
\* comma expression.
\* top is the index of the top-level statement being executed, id the
\* statement, env the scope it runs in, idx and blen its place in and the
\* length of the block that holds it, loop the inside_loop flag passed to it
\* and lex whether it stands inside the body of a while in the program text.
Event(e, ctx, stmt, env, loop, val, err, brk) ==
    [e |-> e, top |-> ctx.top, id |-> stmt.id, env |-> env,
     idx |-> ctx.idx, blen |-> ctx.blen, loop |-> loop, lex |-> ctx.lex,
     v |-> val, err |-> err, brk |-> brk]

Log(st, ev) == [st EXCEPT !.out = Append(@, ev)]

\* Rc::new(RefCell::new(env)): the scope gets a cell of its own
Alloc(st, env) == [st EXCEPT !.heap = Append(@, env)]

Ctx(top, idx, blen, lex) == [top |-> top, idx |-> idx, blen |-> blen, lex |-> lex]

\* the log entry of a step e of the evaluation of an expression in scope
\* env: the i-th of n parts gave r
EvalEvent(e, env, i, n, r) ==
    Event(e, Ctx(0, i, n, FALSE), [id |-> 0], env, FALSE, r.v, r.err, FALSE)

\* Value::Function(Rc::new(Clock)), the native function of the global scope
ClockFn == [t |-> "fn", v |-> 0]

\* what the clock returns
ClockValue == Num(1)

\* Clock::call: no argument is expected
ClockCall(nargs, st) ==
    IF nargs # 0 THEN Err(st, "FunctionArgError") ELSE Ok(st, ClockValue)

RECURSIVE Eval(_, _, _)
RECURSIVE EvalArgs(_, _, _, _, _)
RECURSIVE CommaItems(_, _, _, _)

\* the i-th argument of a call gave r: the result is pushed, whatever it is
ArgPushed(args, i, env, failed, r) ==
    IF r.k \notin {"val", "err"} THEN r
    ELSE EvalArgs(args, i + 1, env,
                  Log(r.st, EvalEvent("arg", env, i, Len(args), r)),
                  failed \/ r.k = "err")

\* the loop over the arguments of a call, from the i-th on; the result
\* says whether any of them failed
EvalArgs(args, i, env, st, failed) ==
    IF i > Len(args)
    THEN IF failed THEN Err(st, "FunctionArgError") ELSE Ok(st, Nil)
    ELSE ArgPushed(args, i, env, failed, Eval(args[i], env, st))

\* a call that invokes the callee although an argument failed
CallDespiteArgs(e, env, callee, a) ==
    IF a.k \notin {"val", "err"} THEN a
    ELSE IF callee = ClockFn
    THEN ClockCall(Len(e.args),
                   Log(a.st, EvalEvent("invoke", env, 0, Len(e.args), a)))
    ELSE Err(a.st, "FunctionCallError")

\* the end of Expression::Call, the callee having evaluated to the value
\* callee and the arguments to a: the callee is invoked when no argument
\* failed and it is a function
CallArgsDone(e, env, callee, a) ==
    IF a.k # "val" THEN a
    ELSE IF callee = ClockFn
    THEN ClockCall(Len(e.args),
                   Log(a.st, EvalEvent("invoke", env, 0, Len(e.args), a)))
    ELSE Err(a.st, "FunctionCallError")

\* Expression::Call, c being what the callee evaluated to
CallEval(e, env, c) ==
    IF c.k # "val" THEN c
    ELSE CallArgsDone(e, env, c.v,
            EvalArgs(e.args, 1, env,
                     Log(c.st, EvalEvent("callee", env, 0, Len(e.args), c)),
                     FALSE))

\* an item of a comma expression other than the last gave r: the value
\* is dropped and an error is printed on stdout
CommaItemDone(items, i, env, r) ==
    IF r.k \notin {"val", "err"} THEN r
    ELSE CommaItems(items, i + 1, env,
            IF r.k = "err"
            THEN Log(r.st, EvalEvent("dropped", env, i, Len(items), r))
            ELSE r.st)

\* Expression::CommaExpr from the i-th item on: the value is that of the
\* last item
CommaItems(items, i, env, st) ==
    IF Len(items) = 0 THEN Err(st, "InvalidExpr")
    ELSE IF i = Len(items) THEN Eval(items[i], env, st)
    ELSE CommaItemDone(items, i, env, Eval(items[i], env, st))


\* the value of a lazy boolean operator whose right operand evaluated to
\* right: its truthiness, as a Bool
LogicRight(right) ==
    IF right.k # "val" THEN right ELSE Ok(right.st, Bool(is_truthy(right.v)))

\* an and that evaluates its right operand whatever the left one gave
AndEager(e, env, left) ==
    IF left.k # "val" THEN left
    ELSE IF ~is_truthy(left.v)
    THEN Ok(Eval(e.right, env, left.st).st, Bool(FALSE))
    ELSE LogicRight(Eval(e.right, env, left.st))

\* AndExpr::eval, left being what the left operand evaluated to: && does
\* not evaluate the right operand when the left one is falsey
AndExprEval(e, env, left) ==
    IF left.k # "val" THEN left
    ELSE IF ~is_truthy(left.v) THEN Ok(left.st, Bool(FALSE))
    ELSE LogicRight(Eval(e.right, env, left.st))

\* OrExpr::eval, left being what the left operand evaluated to: || does
\* not evaluate the right operand when the left one is truthy
OrExprEval(e, env, left) ==
    IF left.k # "val" THEN left
    ELSE IF is_truthy(left.v) THEN Ok(left.st, Bool(TRUE))
    ELSE LogicRight(Eval(e.right, env, left.st))

\* Expression::eval in the scope env
Eval(e, env, st) ==
    CASE e.x = "lit" -> Ok(st, e.val)
      [] e.x = "var" ->
            LET g == Get(st.heap, env, e.name)
            IN  CASE g.k = "ok" -> Ok(st, g.v)
                  [] g.k = "none" -> Err(st, "UndefinedVar")
                  [] g.k = "err" -> Err(st, "UncaughtReference")
                  [] OTHER -> Crash(st)
      [] e.x = "assign" ->
            LET rval == Eval(e.right, env, st)
            IN  IF rval.k # "val" THEN rval
                ELSE LET p == Put(rval.st.heap, env, e.name, rval.v)
                         st1 == [rval.st EXCEPT !.heap = p.heap]
                     IN  CASE p.k = "ok" -> Ok(st1, rval.v)
                           [] p.k = "err" -> Err(st1, "InvalidExpr")
                           [] OTHER -> Crash(st1)
      [] e.x = "bin" ->
            LET left == Eval(e.left, env, st)
            IN  IF left.k # "val" THEN left
                ELSE LET right == Eval(e.right, env, left.st)
                     IN  IF right.k # "val" THEN right
                         ELSE BinaryOp(right.st, e.operator, left.v, right.v)
      [] e.x = "and" -> AndExprEval(e, env, Eval(e.left, env, st))
      [] e.x = "or" -> OrExprEval(e, env, Eval(e.left, env, st))
      [] e.x = "call" -> CallEval(e, env, Eval(e.callee, env, st))
      [] e.x = "comma" -> CommaItems(e.items, 1, env, st)
      [] OTHER -> Err(st, "ErrorProduction")

MaxIter == 2

\* what the while statement returns when its body evaluates to Break;
\* here as if it handed the Break on to its caller
WhileKeepsBreak == Break

\* what the while statement returns when its body evaluates to Break:
\* Ok(Default::default()), which is Nil
WhileBreakValue == Nil

\* what interpret does after reporting the error of a top-level
\* statement; here as if it returned at the first error
StopOnError(p, len) == len + 1

\* what interpret does after reporting the error of a top-level
\* statement: the for loop goes on with the next statement
NextOnError(p, len) == p + 1

RECURSIVE Execute(_, _, _, _, _)
RECURSIVE ExecuteBlock(_, _, _, _, _, _)
RECURSIVE WhileLoop(_, _, _, _, _, _, _)

\* the scope execute creates around rc_env for the statement it runs
InsideEnv(rc_env, inside_loop) ==
    IF inside_loop THEN loop_enclosed_by(rc_env) ELSE enclosed_by(rc_env)

\* Stmt::ExprStmt: a is what the expression evaluated to; an assignment or
\* a variable that evaluated gives Nil outside the REPL
ExprStmtArm(stmt, a) ==
    IF stmt.e.x \in {"assign", "var"} /\ a.k = "val" THEN Ok(a.st, Nil) ELSE a

\* an if that runs its branch as if it stood outside every loop
IfArmDropsFlag(stmt, rc_env, inside_loop, ctx, c) ==
    IF c.k # "val" THEN c
    ELSE IF is_truthy(c.v) \/ stmt.else_.s # "none"
    THEN Execute(IF is_truthy(c.v) THEN stmt.then_ ELSE stmt.else_,
                 Len(c.st.heap) + 1, FALSE,
                 Ctx(ctx.top, 0, 0, ctx.lex),
                 Alloc(c.st, InsideEnv(rc_env, inside_loop)))
    ELSE Ok(Alloc(c.st, InsideEnv(rc_env, inside_loop)), Nil)

\* Stmt::IfStmt: c is what the condition evaluated to; the branch runs in
\* the new scope
IfArm(stmt, rc_env, inside_loop, ctx, c) ==
    IF c.k # "val" THEN c
    ELSE IF is_truthy(c.v) \/ stmt.else_.s # "none"
    THEN Execute(IF is_truthy(c.v) THEN stmt.then_ ELSE stmt.else_,
                 Len(c.st.heap) + 1, inside_loop,
                 Ctx(ctx.top, 0, 0, ctx.lex),
                 Alloc(c.st, InsideEnv(rc_env, inside_loop)))
    ELSE Ok(Alloc(c.st, InsideEnv(rc_env, inside_loop)), Nil)

\* a declaration that binds the name to Nil when its initializer fails
VarDeclBindsOnError(stmt, rc_env, inside_loop, ctx, i) ==
    CASE i.k = "val" ->
            Ok([i.st EXCEPT !.heap = DefineHeap(@, rc_env, stmt.name, i.v)], Nil)
      [] i.k = "err" ->
            Err([i.st EXCEPT !.heap = DefineHeap(@, rc_env, stmt.name, Nil)],
                i.err)
      [] OTHER -> i

\* Stmt::VarDecl: i is what the initializer evaluated to (Nil without
\* one); an error is reported here and returned
VarDeclArm(stmt, rc_env, inside_loop, ctx, i) ==
    CASE i.k = "val" ->
            Ok([i.st EXCEPT !.heap = DefineHeap(@, rc_env, stmt.name, i.v)], Nil)
      [] i.k = "err" ->
            Err(Log(i.st, Event("report", ctx, stmt, 0, inside_loop, Nil,
                                i.err, FALSE)), i.err)
      [] OTHER -> i

\* Stmt::Break
BreakArm(stmt, rc_env, inside_loop, ctx, st) ==
    IF ~inside_loop
    THEN Err(Log(st, Event("break", ctx, stmt, rc_env, inside_loop, Nil,
                           "BreakWithout", FALSE)), "BreakWithout")
    ELSE Ok(Log(st, Event("break", ctx, stmt, rc_env, inside_loop, Break,
                          "", FALSE)), Break)

\* the match of Interpreter::execute, the statement being logged as entered
ExecuteArm(stmt, rc_env, inside_loop, ctx, st) ==
    CASE stmt.s = "expr" -> ExprStmtArm(stmt, Eval(stmt.e, rc_env, st))
      [] stmt.s = "print" -> Eval(stmt.e, rc_env, st)
      [] stmt.s = "err" ->
            Ok(Log(st, Event("report", ctx, stmt, 0, inside_loop, Nil,
                             "Bad statement", FALSE)), Nil)
      [] stmt.s = "empty" -> Ok(st, Nil)
      [] stmt.s = "block" ->
            ExecuteBlock(stmt.stmts, 1, Len(st.heap) + 1, inside_loop,
                         Ctx(ctx.top, 0, 0, ctx.lex),
                         Alloc(st, InsideEnv(rc_env, inside_loop)))
      [] stmt.s = "if" ->
            IfArm(stmt, rc_env, inside_loop, ctx,
                  Eval(stmt.condition, rc_env, st))
      [] stmt.s = "while" ->
            IF ~inside_loop \/ ~InsideEnv(rc_env, inside_loop).in_loop
            THEN Crash(Alloc(st, InsideEnv(rc_env, inside_loop)))
            ELSE WhileLoop(stmt, rc_env, Len(st.heap) + 1, Nil, ctx,
                           Alloc(st, InsideEnv(rc_env, inside_loop)), 0)
      [] stmt.s = "vardecl" ->
            VarDeclArm(stmt, rc_env, inside_loop, ctx,
                       IF stmt.initializer.x = "none" THEN Ok(st, Nil)
                       ELSE Eval(stmt.initializer, rc_env, st))
      [] stmt.s = "break" -> BreakArm(stmt, rc_env, inside_loop, ctx, st)

\* Interpreter::execute(stmt, rc_env, inside_loop)
Execute(stmt, rc_env, inside_loop, ctx, st) ==
    ExecuteArm(stmt, rc_env, inside_loop, ctx,
               Log(st, Event("exec", ctx, stmt, rc_env, inside_loop, Nil,
                             "", FALSE)))

\* a loop that makes a scope for every iteration instead of one on entry
WhileFreshScope(stmt, rc_env, loop_env, ctx, iter, b) ==
    IF b.k # "val" THEN b
    ELSE IF b.v = Break
    THEN Ok(Log(b.st, Event("endwhile", ctx, stmt, rc_env, TRUE,
                            WhileBreakValue, "", FALSE)), WhileBreakValue)
    ELSE WhileLoop(stmt, rc_env, Len(b.st.heap) + 1, b.v, ctx,
                   Alloc(b.st, InsideEnv(rc_env, TRUE)), iter + 1)

\* the while loop after its body evaluated to b: Break leaves the loop
WhileBody(stmt, rc_env, loop_env, ctx, iter, b) ==
    IF b.k # "val" THEN b
    ELSE IF b.v = Break
    THEN Ok(Log(b.st, Event("endwhile", ctx, stmt, rc_env, TRUE,
                            WhileBreakValue, "", TRUE)), WhileBreakValue)
    ELSE WhileLoop(stmt, rc_env, loop_env, b.v, ctx, b.st, iter + 1)

\* the condition of the while statement evaluated to c in scope rc_env
\* ("test" in the log)
Tested(stmt, rc_env, ctx, c) ==
    IF c.k \in {"val", "err"}
    THEN Log(c.st, Event("test", ctx, stmt, rc_env, TRUE, c.v, c.err, FALSE))
    ELSE c.st

\* the while loop after its condition evaluated to c
WhileTest(stmt, rc_env, loop_env, val, ctx, iter, c) ==
    IF c.k # "val" THEN [c EXCEPT !.st = Tested(stmt, rc_env, ctx, c)]
    ELSE IF ~is_truthy(c.v)
    THEN Ok(Log(Tested(stmt, rc_env, ctx, c),
                Event("endwhile", ctx, stmt, rc_env, TRUE, val,
                      "", FALSE)), val)
    ELSE WhileBody(stmt, rc_env, loop_env, ctx, iter,
                   Execute(stmt.body, loop_env, TRUE,
                           Ctx(ctx.top, 0, 0, TRUE),
                           Tested(stmt, rc_env, ctx, c)))

\* the while loop of Interpreter::execute, from its iter-th test of the
\* condition on; a loop still running after MaxIter rounds is one that
\* does not return
WhileLoop(stmt, rc_env, loop_env, val, ctx, st, iter) ==
    IF iter >= MaxIter THEN Res(st, "hang", Nil, "")
    ELSE WhileTest(stmt, rc_env, loop_env, val, ctx, iter,
                   Eval(stmt.condition, rc_env, st))

\* a block that takes Break for the value of an ordinary statement and
\* goes on with the next one
BlockArmGoesOn(statements, i, sub_env, inside_loop, ctx, r) ==
    IF r.k \notin {"val", "err"} THEN r
    ELSE ExecuteBlock(statements, i + 1, sub_env, inside_loop, ctx, r.st)

\* the match of Interpreter::execute_block on the result r of the i-th
\* statement: Break returns at once, a value other than Nil is printed, an
\* error is reported, and the loop goes on
BlockArm(statements, i, sub_env, inside_loop, ctx, r) ==
    IF r.k \notin {"val", "err"} THEN r
    ELSE IF r.k = "val" /\ r.v = Break THEN Ok(r.st, Break)
    ELSE ExecuteBlock(statements, i + 1, sub_env, inside_loop, ctx,
            IF r.k = "err"
            THEN Log(r.st, Event("report", Ctx(ctx.top, i, Len(statements), ctx.lex),
                                 statements[i], sub_env, inside_loop, Nil,
                                 r.err, FALSE))
            ELSE IF r.v # Nil
            THEN Log(r.st, Event("print", Ctx(ctx.top, i, Len(statements), ctx.lex),
                                 statements[i], sub_env, inside_loop, r.v,
                                 "", FALSE))
            ELSE r.st)

\* Interpreter::execute_block(statements, sub_env, inside_loop), from the
\* i-th statement on
ExecuteBlock(statements, i, sub_env, inside_loop, ctx, st) ==
    IF i > Len(statements) THEN Ok(st, Nil)
    ELSE BlockArm(statements, i, sub_env, inside_loop, ctx,
                  Execute(statements[i], sub_env,
                          (statements[i].s = "while") \/ inside_loop,
                          Ctx(ctx.top, i, Len(statements), ctx.lex), st))

\* Stmt::VarDecl in interpret: i is what the initializer evaluated to; an
\* error is reported once (AfterStmt) and the loop continues
TopVarDeclArm(stmt, i) ==
    IF i.k = "val"
    THEN Ok([i.st EXCEPT !.heap = DefineHeap(@, GlobalCell, stmt.name, i.v)], Nil)
    ELSE i

\* The match on stmt of Interpreter::interpret, the statement being
\* logged as entered: the top-level statement stmt, the p-th of the
\* program, run against the global scope.
InterpretArm(stmt, ctx, st) ==
    CASE stmt.s = "print" -> Eval(stmt.e, GlobalCell, st)
      [] stmt.s = "err" ->
            Ok(Log(st, Event("report", ctx, stmt, 0, FALSE, Nil,
                             "Bad statement", FALSE)), Nil)
      [] stmt.s = "empty" -> Ok(st, Nil)
      [] stmt.s = "block" ->
            ExecuteBlock(stmt.stmts, 1, Len(st.heap) + 1, FALSE, ctx,
                         Alloc(st, enclosed_by(GlobalCell)))
      [] stmt.s = "vardecl" ->
            TopVarDeclArm(stmt, IF stmt.initializer.x = "none" THEN Ok(st, Nil)
                                ELSE Eval(stmt.initializer, GlobalCell, st))
      [] stmt.s = "break" ->
            Err(Log(st, Event("break", ctx, stmt, GlobalCell, FALSE, Nil,
                              "BreakWithout", FALSE)), "BreakWithout")

\* One round of the for loop of Interpreter::interpret: expression, if and
\* while statements go to execute (a while with inside_loop set), the
\* others are run in place.
InterpretStmt(stmt, p, st) ==
    IF stmt.s \in {"expr", "if", "while"}
    THEN Execute(stmt, GlobalCell, stmt.s = "while", Ctx(p, 0, 0, FALSE), st)
    ELSE InterpretArm(stmt, Ctx(p, 0, 0, FALSE),
                      Log(st, Event("exec", Ctx(p, 0, 0, FALSE), stmt,
                                    GlobalCell, FALSE, Nil, "", FALSE)))

\* The match on val that ends a round of interpret: a value other than Nil
\* is printed, an error is reported.  (The continue of the VarDecl arm
\* skips the match after reporting the error itself: one report either way.)
AfterStmt(stmt, p, r) ==
    LET ctx == Ctx(p, 0, 0, FALSE)
    IN  CASE r.k = "val" /\ r.v # Nil ->
                Log(r.st, Event("print", ctx, stmt, 0, FALSE, r.v, "", FALSE))
          [] r.k = "err" ->
                Log(r.st, Event("report", ctx, stmt, 0, FALSE, Nil, r.err, FALSE))
          [] OTHER -> r.st

\* what is kept of the ValueResult of a top-level statement, with the
\* bindings of the global scope before and after it
TopResult(r, before, after) ==
    [k |-> r.k, v |-> r.v, err |-> r.err,
     before |-> before[GlobalCell].values, after |-> after[GlobalCell].values]

\* ------------------------------------------------------------------
\* The programs interpreted: sequences of at most MaxProg top-level
\* statements drawn from Catalog.
\* ------------------------------------------------------------------

MaxProg == 3

True == Lit(Bool(TRUE))
One == Lit(Num(1))
Two == Lit(Num(2))
DivZero == BinExpr(One, "SLASH", Lit(Num(0)))

Catalog ==
    << VarDecl(1, "x", One),                             \* var x = 1;
       PrintStmt(1, Variable("x")),                      \* print x;
       ExprStmt(1, DivZero),                             \* 1 / 0;
       ExprStmt(1, Assignment("x", Two)),                \* x = 2;
       BreakStmt(1),                                     \* break;
       \* { 1 / 0; print 2; }
       Block(1, <<ExprStmt(2, DivZero), PrintStmt(3, Two)>>),
       \* { break; print 2; }
       Block(1, <<BreakStmt(2), PrintStmt(3, Two)>>),
       \* if (true) break;
       IfStmt(1, True, BreakStmt(2), NoStmt),
       \* if (true) y = 2;
       IfStmt(1, True, ExprStmt(2, Assignment("y", Two)), NoStmt),
       \* { x = 2; }
       Block(1, <<ExprStmt(2, Assignment("x", Two))>>),
       \* while (true) { while (true) break; print 2; break; }
       While(1, True, Block(2, <<While(3, True, BreakStmt(4)),
                                 PrintStmt(5, Two), BreakStmt(6)>>)),
       \* while (true) { 1 / 0; break; }
       While(1, True, Block(2, <<ExprStmt(3, DivZero), BreakStmt(4)>>)),
       \* while (x) x = nil;
       While(1, Variable("x"), ExprStmt(2, Assignment("x", Lit(Nil)))),
       \* { print y; }
       Block(1, <<PrintStmt(2, Variable("y"))>>),
       \* while (true) 1;
       While(1, True, ExprStmt(2, One)),
       \* print y;
       PrintStmt(1, Variable("y")),
       \* { var y = 1; x = 2; }
       Block(1, <<VarDecl(2, "y", One), ExprStmt(3, Assignment("x", Two))>>),
       \* { var x = 2; x = 3; }
       Block(1, <<VarDecl(2, "x", Two),
                  ExprStmt(3, Assignment("x", Lit(Num(3))))>>),
       \* while (true) { if (true) { break; print 2; } print 2; }
       While(1, True,
             Block(2, <<IfStmt(3, True,
                               Block(4, <<BreakStmt(5), PrintStmt(6, Two)>>),
                               NoStmt),
                        PrintStmt(7, Two)>>)),
       \* while (1 / 0) 1;
       While(1, DivZero, ExprStmt(2, One)),
       \* if (true) while (true) break;
       IfStmt(1, True, While(2, True, BreakStmt(3)), NoStmt) >>

\* Interpreter::new(parser) followed by interpret(): the statements parsed,
\* a fresh global scope, nothing executed yet
InitRun ==
    /\ \E n \in 1..MaxProg :
         \E f \in [1..n -> 1..Len(Catalog)] :
            prog = [i \in 1..n |-> Catalog[f[i]]]
    /\ pc = 1
    /\ heap = <<DefaultEnvironment>>
    /\ out = <<>>
    /\ results = <<>> /\ previous = 0
    /\ crashed = FALSE
    /\ made = <<NoEnv>> /\ last = NoOp /\ nops = 0
    /\ parser = IdleParser /\ parsed = <<>> /\ pstatus = "idle" /\ consumed = <<>>
    /\ scanner = IdleScanner

\* the end of a round of interpret that gave r: a panic, a stack overflow
\* or a loop that does not return ends the run inside the statement
InterpretDone(r) ==
    IF r.k \in {"crash", "hang"}
    THEN /\ crashed' = TRUE
         /\ heap' = r.st.heap
         /\ out' = r.st.out
         /\ results' = Append(results, TopResult(r, heap, r.st.heap))
         /\ pc' = pc
    ELSE /\ crashed' = FALSE
         /\ heap' = AfterStmt(prog[pc], pc, r).heap
         /\ out' = AfterStmt(prog[pc], pc, r).out
         /\ results' = Append(results, TopResult(r, heap, r.st.heap))
         /\ pc' = IF r.k = "err" THEN NextOnError(pc, Len(prog)) ELSE pc + 1

\* one round of the for loop of Interpreter::interpret
Interpret ==
    /\ ~crashed
    /\ pc \in 1..Len(prog)
    /\ InterpretDone(InterpretStmt(prog[pc], pc, RunState(heap, out)))
    /\ UNCHANGED <<prog, previous, envVars, parseVars, scanVars>>

NextRun == Interpret

SpecRun == InitRun /\ [][NextRun]_vars

\* ------------------------------------------------------------------
\* Claims about runtime errors and break.
\* ------------------------------------------------------------------

\* the log holds an event e of top-level statement i with error err
Reported(i, err) ==
    \E j \in DOMAIN out :
        out[j].e = "report" /\ out[j].top = i /\ out[j].err = err

\* the log holds the entry of the (i+1)-th statement of the block run in
\* scope env, after position j
NextOfBlockEntered(j, env, i) ==
    \E q \in DOMAIN out :
        q > j /\ out[q].e = "exec" /\ out[q].env = env /\ out[q].idx = i + 1

\* C7: after a top-level statement fails with a runtime error, interpret
\* has reported the error, the names bound in the global scope before the
\* statement are still bound there, and the next top-level statement is
\* the next one to run; statements are entered in program order.
C7_ErrorKeepsProgramGoing ==
    /\ \A i \in DOMAIN results :
          results[i].k = "err" =>
             /\ Reported(i, results[i].err)
             /\ \A n \in Names :
                   results[i].before[n] # Absent => results[i].after[n] # Absent
             /\ i = Len(results) => (~crashed /\ pc = i + 1)
    /\ \A p, q \in DOMAIN out : p < q => out[p].top <= out[q].top

\* C8: once a statement of a block (a loop body included) has failed with
\* a runtime error, no later statement of that block is entered.
C8_ErrorAbortsBlock ==
    \A p, q \in DOMAIN out :
        ( /\ p < q
          /\ out[p].e = "report" /\ out[p].env # NoEnv
          /\ out[q].e = "exec" /\ out[q].env = out[p].env )
        => out[q].idx <= out[p].idx

\* C9: a break statement that stands outside every while body fails with
\* BreakWithout; the next statement of its block, if any, is entered, and
\* after a top-level statement that failed with BreakWithout the next
\* top-level statement is the next one to run.
C9_BreakOutsideLoop ==
    /\ \A j \in DOMAIN out :
          (out[j].e = "break" /\ ~out[j].lex) =>
             /\ out[j].err = "BreakWithout" /\ out[j].v # Break
             /\ out[j].idx < out[j].blen =>
                   NextOfBlockEntered(j, out[j].env, out[j].idx)
    /\ \A i \in DOMAIN results :
          (results[i].k = "err" /\ results[i].err = "BreakWithout") =>
             /\ Reported(i, "BreakWithout")
             /\ i = Len(results) => (~crashed /\ pc = i + 1)
             /\ i < Len(results) =>
                   \E q \in DOMAIN out : out[q].e = "exec" /\ out[q].top = i + 1

\* a break at top level was reported and the statement after it has been
\* executed; a break in a block outside any loop was followed by the next
\* statement of the block
C9_Witness ==
    /\ Len(results) >= 2
    /\ results[1].err = "BreakWithout"
    /\ \E j \in DOMAIN out :
          /\ out[j].e = "break" /\ ~out[j].lex /\ out[j].top = 2
          /\ out[j].idx = 1 /\ out[j].blen = 2
          /\ NextOfBlockEntered(j, out[j].env, 1)

\* C10: a while statement never returns Break and returns Nil when its
\* body evaluated to Break; the statement after a loop that was left by
\* break inside the body of an outer loop is entered; no top-level
\* statement results in Break.
C10_BreakEndsInnermostLoop ==
    /\ \A j \in DOMAIN out :
          out[j].e = "endwhile" =>
             /\ out[j].v # Break
             /\ out[j].brk => out[j].v = Nil
             /\ (out[j].brk /\ out[j].lex /\ out[j].idx < out[j].blen) =>
                   NextOfBlockEntered(j, out[j].env, out[j].idx)
    /\ \A i \in DOMAIN results :
          ~(results[i].k = "val" /\ results[i].v = Break)

\* an inner loop was left by break, the outer loop went on to print and
\* was then left by its own break, and the top-level statement gave Nil
C10_Witness ==
    \E j, p, q \in DOMAIN out :
        /\ j < p /\ p < q
        /\ out[j].e = "endwhile" /\ out[j].brk /\ out[j].lex
        /\ out[p].e = "print" /\ out[p].env = out[j].env
        /\ out[q].e = "endwhile" /\ out[q].brk /\ ~out[q].lex
        /\ out[q].top = out[j].top
        /\ Len(results) >= out[q].top
        /\ results[out[q].top].k = "val" /\ results[out[q].top].v = Nil

\* ------------------------------------------------------------------
\* Claims about break inside nested statements.
\* ------------------------------------------------------------------

\* the statements that stmt holds
Children(stmt) ==
    CASE stmt.s = "block" -> stmt.stmts
      [] stmt.s = "if" ->
            IF stmt.else_.s = "none" THEN <<stmt.then_>>
            ELSE <<stmt.then_, stmt.else_>>
      [] stmt.s = "while" -> <<stmt.body>>
      [] OTHER -> <<>>

\* the one element of a set of at most one integer, -1 for the empty set
TheOne(found) == IF found = {} THEN -1 ELSE CHOOSE x \in found : TRUE

\* the id of the innermost while of stmt whose body holds the statement
\* id, w being the innermost while around stmt (0 for none); -1 when stmt
\* does not hold the statement
RECURSIVE LoopOf(_, _, _)
LoopOf(stmt, id, w) ==
    IF stmt.id = id THEN w
    ELSE TheOne({ LoopOf(Children(stmt)[k], id,
                         IF stmt.s = "while" THEN stmt.id ELSE w) :
                     k \in DOMAIN Children(stmt) } \ {-1})

\* how many statements stand around the statement id in stmt; -1 when
\* stmt does not hold the statement
RECURSIVE Depth(_, _)
Depth(stmt, id) ==
    IF stmt.id = id THEN 0
    ELSE LET d == TheOne({ Depth(Children(stmt)[k], id) :
                              k \in DOMAIN Children(stmt) } \ {-1})
         IN  IF d = -1 THEN -1 ELSE d + 1

\* whether the statement id of stmt is a while statement
RECURSIVE IsWhile(_, _)
IsWhile(stmt, id) ==
    IF stmt.id = id THEN stmt.s = "while"
    ELSE \E k \in DOMAIN Children(stmt) : IsWhile(Children(stmt)[k], id)

\* C19: a break statement that evaluates to Break is followed at once by
\* the return of the innermost while around it, left by break: no
\* statement is entered, nothing is printed and nothing is reported in
\* between, whatever blocks and ifs stand between the two.
C19_BreakLeavesBlocks ==
    \A j \in DOMAIN out :
        (out[j].e = "break" /\ out[j].v = Break) =>
            /\ j + 1 \in DOMAIN out
            /\ out[j + 1].e = "endwhile" /\ out[j + 1].brk
            /\ out[j + 1].top = out[j].top
            /\ out[j + 1].id = LoopOf(prog[out[j].top], out[j].id, 0)

\* a break under a block, an if and a block of a while body has ended the
\* loop, a statement being left after it in its block
C19_Witness ==
    \E j \in DOMAIN out :
        /\ out[j].e = "break" /\ out[j].v = Break
        /\ Depth(prog[out[j].top], out[j].id) = 4
        /\ out[j].idx < out[j].blen
        /\ j + 1 \in DOMAIN out
        /\ out[j + 1].e = "endwhile" /\ out[j + 1].brk
        /\ Len(results) >= out[j].top

C27_ScopesKeepShape ==
    ~crashed =>
        /\ \A c \in Cells :
              /\ heap[c].enclosing = made[c]
              /\ heap[c].is_global = (c = GlobalCell)
              /\ ProperChain(heap, c)
        /\ last.op \in {"get", "put"} =>
              \A c \in Cells : \A n \in Names :
                  (heap[c].values[n] = Absent) <=> (last.pre[c].values[n] = Absent)

\* ------------------------------------------------------------------
\* Assignment expressions evaluated on chains of scopes: a chain of at
\* most MaxChain scopes, each binding some of the names, and one
\* assignment evaluated in one of its scopes.
\* ------------------------------------------------------------------

MaxChain == 3

\* what a scope of the chain holds for a name before the assignment
ChainVals == {Absent, Num(1)}

\* the i-th scope of a chain, the first one being the global scope
ChainCell(i, vals) ==
    IF i = 1 THEN [DefaultEnvironment EXCEPT !.values = vals]
    ELSE [enclosed_by(i - 1) EXCEPT !.values = vals]

\* the right-hand sides assigned: literals and a failing division
AssignedExprs ==
    {Lit(Nil), Lit(Num(2)), DivZero}

InitAssign ==
    /\ \E n \in 1..MaxChain :
         \E f \in [1..n -> [Names -> ChainVals]] :
            /\ heap = [i \in 1..n |-> ChainCell(i, f[i])]
            /\ made = [i \in 1..n |-> i - 1]
    /\ last = NoOp
    /\ crashed = FALSE
    /\ nops = 0
    /\ prog = <<>> /\ pc = 0 /\ out = <<>> /\ results = <<>> /\ previous = 0
    /\ parser = IdleParser /\ parsed = <<>> /\ pstatus = "idle" /\ consumed = <<>>
    /\ scanner = IdleScanner

\* what is kept of the evaluation of `n = e` in scope h that gave a
AssignRecord(h, n, e, a) ==
    [OpRecord("assign", h, n, Eval(e, h, RunState(heap, <<>>)).v, a.k, a.v)
        EXCEPT !.rt = IF Eval(e, h, RunState(heap, <<>>)).k = "val"
                      THEN Nil ELSE Absent]

\* AssignmentExpr::eval of `n = e` in scope h
EnvAssign(h, n, e) ==
    /\ ~crashed
    /\ nops = 0
    /\ nops' = 1
    /\ LET a == Eval(Assignment(n, e), h, RunState(heap, <<>>))
       IN  /\ heap' = a.st.heap
           /\ last' = AssignRecord(h, n, e, a)
           /\ crashed' = (a.k = "crash")
    /\ UNCHANGED <<made, runVars, parseVars, scanVars>>

NextAssign == \E h \in Cells, n \in Names, e \in AssignedExprs : EnvAssign(h, n, e)

SpecAssign == InitAssign /\ [][NextAssign]_vars

\* C22: after `n = e` was evaluated in a scope of a well-formed chain: if
\* e failed, the assignment failed and every scope is as it was; if no
\* scope of the chain bound n, the assignment failed; if it succeeded,
\* its value is the value of e and reading n from the same scope gives
\* that value (a value other than Nil, which get returns as None).
C22_AssignmentEval ==
    (last.op = "assign" /\ last.proper) =>
        /\ last.rt = Absent => (last.k = "err" /\ heap = last.pre)
        /\ last.owner = NoEnv => last.k = "err"
        /\ last.k = "val" => last.r = last.v
        /\ (last.k = "val" /\ last.v # Nil) =>
              /\ Get(heap, last.h, last.n).k = "ok"
              /\ Get(heap, last.h, last.n).v = last.v

\* C28: every while statement that execute is called on is given
\* inside_loop set, so that the assertion at the start of the loop holds.
C28_WhileGetsFlag ==
    \A j \in DOMAIN out :
        (out[j].e = "exec" /\ IsWhile(prog[out[j].top], out[j].id)) =>
            out[j].loop

\* ------------------------------------------------------------------
\* Variable declarations: one declaration executed in a scope of a chain
\* ------------------------------------------------------------------

\* the initializers declared with: none, literals and a failing division
DeclInits == {NoExpr, Lit(Num(2)), Lit(Nil), DivZero}

\* `var n = init;` (`var n;` without initializer) as interpret runs it at
\* top level, in the global scope, and as execute runs it in the scope h
\* of a block
Declare(h, n, init) ==
    IF h = GlobalCell
    THEN InterpretStmt(VarDecl(1, n, init), 1, RunState(heap, <<>>))
    ELSE Execute(VarDecl(1, n, init), h, FALSE, Ctx(1, 1, 1, FALSE),
                 RunState(heap, <<>>))

\* what the initializer gives in scope h (Nil stands in for none)
Initial(h, init) ==
    IF init = NoExpr THEN Ok(RunState(heap, <<>>), Nil)
    ELSE Eval(init, h, RunState(heap, <<>>))

\* what is kept of the declaration of n in scope h that gave d
DeclRecord(h, n, init, d) ==
    [OpRecord(IF init = NoExpr THEN "var" ELSE "var=", h, n,
              Initial(h, init).v, d.k, d.v)
        EXCEPT !.rt = IF Initial(h, init).k = "val" THEN Nil ELSE Absent]

\* the VarDecl arm of interpret (h the global scope) or of execute
EnvDeclare(h, n, init) ==
    /\ ~crashed
    /\ nops = 0
    /\ nops' = 1
    /\ heap' = Declare(h, n, init).st.heap
    /\ last' = DeclRecord(h, n, init, Declare(h, n, init))
    /\ crashed' = (Declare(h, n, init).k = "crash")
    /\ UNCHANGED <<made, runVars, parseVars, scanVars>>

NextDecl == \E h \in Cells, n \in Names, init \in DeclInits : EnvDeclare(h, n, init)

SpecDecl == InitAssign /\ [][NextDecl]_vars

\* the bindings other than that of n in scope h are those of heap pre
OthersKept(pre, h, n) ==
    /\ Len(heap) = Len(pre)
    /\ \A c \in DOMAIN heap :
          /\ heap[c].enclosing = pre[c].enclosing
          /\ heap[c].is_global = pre[c].is_global
          /\ \A m \in Names :
                (c # h \/ m # n) => heap[c].values[m] = pre[c].values[m]

\* C30: after a var declaration was executed in a scope, at top level or
\* in a block: if its initializer failed, the declaration failed and
\* every scope holds what it held before, the declared name included; if
\* it had no initializer, the name is bound to Nil in that scope and
\* nothing else changed.
C30_FailedDeclDefinesNothing ==
    /\ (last.op = "var=" /\ last.rt = Absent) =>
          (last.k = "err" /\ heap = last.pre)
    /\ last.op = "var" =>
          /\ last.k = "val"
          /\ heap[last.h].values[last.n] = Nil
          /\ OthersKept(last.pre, last.h, last.n)

\* a declaration with a failing initializer was executed in a block scope
\* that already bound the name
C30_Witness ==
    /\ last.op = "var=" /\ last.rt = Absent
    /\ last.h # GlobalCell
    /\ last.pre[last.h].values[last.n] = Num(1)
    /\ heap[last.h].values[last.n] = Num(1)

\* ------------------------------------------------------------------
\* The REPL: a session of lines, each handed to Interpreter::extend.  (The
\* lines hold no expression statement that is a bare assignment or
\* variable, whose value the REPL prints and a file run does not.)
\* ------------------------------------------------------------------

MaxSession == 3

ReplLines ==
    { <<PrintStmt(1, One)>>,                               \* print 1;
      <<VarDecl(1, "x", One)>>,                            \* var x = 1;
      <<PrintStmt(1, Variable("x"))>>,                     \* print x;
      <<Block(1, <<PrintStmt(2, Two)>>)>>,                 \* { print 2; }
      \* var x = 2; print x;
      <<VarDecl(1, "x", Two), PrintStmt(1, Variable("x"))>> }

\* the REPL interpreter before the first line
InitRepl ==
    /\ prog = <<>>
    /\ pc = 1
    /\ heap = <<DefaultEnvironment>>
    /\ out = <<>>
    /\ results = <<>> /\ previous = 0
    /\ crashed = FALSE
    /\ made = <<NoEnv>> /\ last = NoOp /\ nops = 0
    /\ parser = IdleParser /\ parsed = <<>> /\ pstatus = "idle" /\ consumed = <<>>
    /\ scanner = IdleScanner

\* Interpreter::extend up to its call of interpret, which starts its loop
\* over self.stmts at the first statement
ReplExtend ==
    /\ ~crashed
    /\ pc > Len(prog)
    /\ Len(prog) < MaxSession
    /\ \E line \in ReplLines : prog' = prog \o line
    /\ previous' = Len(prog)
    /\ pc' = 1
    /\ UNCHANGED <<heap, crashed, out, results, envVars, parseVars, scanVars>>

NextRepl == ReplExtend \/ Interpret

SpecRepl == InitRepl /\ [][NextRepl]_vars

\* the log entries of top-level statement i being entered
Runs(i) ==
    { j \in DOMAIN out :
        out[j].e = "exec" /\ out[j].top = i /\ out[j].id = prog[i].id
        /\ out[j].blen = 0 }

\* C29: in a REPL session the statement that interpret is about to
\* execute is one appended by the last call of extend, and no statement
\* of the session has been executed more than once.
C29_ExtendRunsNewOnly ==
    /\ pc \in DOMAIN prog => pc > previous
    /\ \A i \in DOMAIN prog : Cardinality(Runs(i)) <= 1

\* ------------------------------------------------------------------
\* Call expressions: one statement `print callee(args);` run against a
\* global scope in which x is bound to the native function and y to 1.
\* ------------------------------------------------------------------

MaxArgs == 2

Callees == {Variable("x"), Variable("y"), DivZero}

ArgExprs ==
    {One, DivZero, Assignment("y", Two), Assignment("x", One), Variable("y")}

ArgLists == UNION { [1..n -> ArgExprs] : n \in 0..MaxArgs }

\* the global scope after `var x = clock; var y = 1;`
CallGlobals ==
    [DefaultEnvironment EXCEPT !.values = [x |-> ClockFn, y |-> Num(1)]]

InitCall ==
    /\ \E c \in Callees, a \in ArgLists : prog = <<PrintStmt(1, Call(c, a))>>
    /\ pc = 1
    /\ heap = <<CallGlobals>>
    /\ out = <<>>
    /\ results = <<>> /\ previous = 0
    /\ crashed = FALSE
    /\ made = <<NoEnv>> /\ last = NoOp /\ nops = 0
    /\ parser = IdleParser /\ parsed = <<>> /\ pstatus = "idle" /\ consumed = <<>>
    /\ scanner = IdleScanner

SpecCall == InitCall /\ [][NextRun]_vars

IsCallStep(ev) == ev.e \in {"callee", "arg", "invoke"}

\* the steps of the call in the order they were taken
CallSteps == SelectSeq(out, IsCallStep)

\* some argument of the list is the failing division
HasFailingArg(args) == \E i \in DOMAIN args : args[i] = DivZero

\* what the i-th argument sees in y when the arguments before it have
\* been evaluated
SeenY(args, i) ==
    IF \E k \in 1..(i - 1) : args[k] = Assignment("y", Two)
    THEN Num(2) ELSE Num(1)

\* the steps taken for a call whose callee evaluated: the callee, then
\* every argument in order, each seeing the effects of those before it
StepsInOrder(steps, args) ==
    /\ Len(steps) \in {Len(args) + 1, Len(args) + 2}
    /\ steps[1].e = "callee"
    /\ \A i \in DOMAIN args :
          /\ steps[i + 1].e = "arg" /\ steps[i + 1].idx = i
          /\ (args[i] = DivZero) <=> (steps[i + 1].err # "")
          /\ args[i] = Variable("y") => steps[i + 1].v = SeenY(args, i)
    /\ Len(steps) = Len(args) + 2 => steps[Len(steps)].e = "invoke"

MaxItems == 3

ItemExprs == {One, DivZero, Assignment("y", Two), Variable("y")}

ItemLists == UNION { [1..n -> ItemExprs] : n \in 2..MaxItems }

InitComma ==
    /\ \E items \in ItemLists : prog = <<PrintStmt(1, CommaExpr(items))>>
    /\ pc = 1
    /\ heap = <<CallGlobals>>
    /\ out = <<>>
    /\ results = <<>> /\ previous = 0
    /\ crashed = FALSE
    /\ made = <<NoEnv>> /\ last = NoOp /\ nops = 0
    /\ parser = IdleParser /\ parsed = <<>> /\ pstatus = "idle" /\ consumed = <<>>
    /\ scanner = IdleScanner

SpecComma == InitComma /\ [][NextRun]_vars

\* what the i-th item evaluates to after the items before it
ItemValue(items, i) ==
    CASE items[i] = One -> Num(1)
      [] items[i] = Assignment("y", Two) -> Num(2)
      [] items[i] = Variable("y") -> SeenY(items, i)
      [] OTHER -> Nil

\* C25: when `print (items);` has run: if an item fails, the first ones
\* included, the statement has failed; otherwise its value is the value
\* of the last item, evaluated after the items before it.
C25_CommaErrorsFail ==
    Len(results) = 1 =>
        LET items == prog[1].e.items
        IN  /\ HasFailingArg(items) => results[1].k = "err"
            /\ ~HasFailingArg(items) =>
                  /\ results[1].k = "val"
                  /\ results[1].v = ItemValue(items, Len(items))

\* ------------------------------------------------------------------
\* Claims about the while loop.
\* ------------------------------------------------------------------

\* the id of the while statement of stmt whose body is the statement id;
\* -1 when the statement is the body of no while
RECURSIVE WhileOf(_, _)
WhileOf(stmt, id) ==
    IF stmt.s = "while" /\ stmt.body.id = id THEN stmt.id
    ELSE TheOne({ WhileOf(Children(stmt)[k], id) :
                     k \in DOMAIN Children(stmt) } \ {-1})

\* the while statement w of top-level statement top is not entered
\* anywhere from log entry i to log entry j
SameRun(i, j, w, top) ==
    ~\E k \in i..j : out[k].e = "exec" /\ out[k].id = w /\ out[k].top = top

\* log entry j is the execution of the body of a while statement
IsBodyRun(j) ==
    out[j].e = "exec" /\ WhileOf(prog[out[j].top], out[j].id) # -1

Declares(stmt, n) ==
    /\ stmt.s = "block"
    /\ \E k \in DOMAIN stmt.stmts :
          stmt.stmts[k].s = "vardecl" /\ stmt.stmts[k].name = n

\* the top-level statement stmt is print n;
PrintsName(stmt, n) ==
    stmt.s = "print" /\ stmt.e.x = "var" /\ stmt.e.name = n

\* C11: a name declared inside a block is not visible after the block: a
\* top-level print of a name that an earlier top-level block declared, and
\* that no earlier top-level statement declared in the global scope, does
\* not yield a value.
C11_BlockLocalsEndWithBlock ==
    \A i \in DOMAIN results : \A n \in Names :
        ( /\ PrintsName(prog[i], n)
          /\ \E j \in 1..(i - 1) : Declares(prog[j], n)
          /\ \A j \in 1..(i - 1) :
                ~(prog[j].s = "vardecl" /\ prog[j].name = n) )
        => results[i].k # "val"

\* the block stmt declares n first and assigns to n afterwards
Redeclares(stmt, n) ==
    /\ stmt.s = "block"
    /\ Len(stmt.stmts) >= 2
    /\ stmt.stmts[1].s = "vardecl" /\ stmt.stmts[1].name = n
    /\ \E k \in 2..Len(stmt.stmts) :
          /\ stmt.stmts[k].s = "expr"
          /\ stmt.stmts[k].e.x = "assign" /\ stmt.stmts[k].e.name = n

\* C12: a block that re-declares n and then assigns to n leaves the
\* binding of n in the global scope as it was, and a print of n that
\* follows the block gives what the global scope held before the block.
C12_AssignInBlockStaysLocal ==
    \A i \in DOMAIN results : \A n \in Names :
        Redeclares(prog[i], n) =>
            /\ results[i].k = "val"
            /\ results[i].after[n] = results[i].before[n]
            /\ ( /\ i + 1 \in DOMAIN results
                 /\ PrintsName(prog[i + 1], n)
                 /\ results[i].before[n] \notin {Absent, Nil} )
               => ( /\ results[i + 1].k = "val"
                    /\ results[i + 1].v = results[i].before[n] )

\* var x = 1; { var x = 2; x = 3; } print x; has run and printed 1
C12_Witness ==
    /\ Len(results) = 3
    /\ prog[1] = VarDecl(1, "x", One)
    /\ Redeclares(prog[2], "x")
    /\ PrintsName(prog[3], "x")
    /\ results[3].k = "val" /\ results[3].v = Num(1)
    /\ \E j \in DOMAIN out :
          out[j].e = "print" /\ out[j].top = 3 /\ out[j].v = Num(1)

\* ------------------------------------------------------------------
\* The lazy boolean operators: programs that declare x and then print
\* logical expressions.
\* ------------------------------------------------------------------

\* the most print statements after var x = 1;
MaxLogic == 2

\* left operands: literals of every kind of value, and a variable
Lefts ==
    { Lit(Bool(FALSE)), Lit(Nil), True, Lit(Num(0)), One, Lit(Str("")),
      Variable("x") }

\* right operands whose evaluation shows: an assignment that changes x
\* and a division that fails
Rights == { Assignment("x", Two), DivZero }

LogicExprs ==
    { LogicAnd(l, r) : l \in Lefts, r \in Rights }
        \cup { LogicOr(l, r) : l \in Lefts, r \in Rights }

\* Interpreter::new(parser) for the program var x = 1; followed by print
\* statements of logical expressions
InitLogic ==
    /\ \E n \in 1..MaxLogic :
         \E f \in [1..n -> LogicExprs] :
            prog = <<VarDecl(1, "x", One)>>
                      \o [i \in 1..n |-> PrintStmt(1, f[i])]
    /\ pc = 1
    /\ heap = <<DefaultEnvironment>>
    /\ out = <<>>
    /\ results = <<>> /\ previous = 0
    /\ crashed = FALSE
    /\ made = <<NoEnv>> /\ last = NoOp /\ nops = 0
    /\ parser = IdleParser /\ parsed = <<>> /\ pstatus = "idle" /\ consumed = <<>>
    /\ scanner = IdleScanner

SpecLogic == InitLogic /\ [][NextRun]_vars

\* what the operand e, a literal or a variable, evaluates to in a global
\* scope with the bindings vals
OperandValue(e, vals) == IF e.x = "lit" THEN e.val ELSE vals[e.name]

\* the i-th statement prints a logical expression whose left operand
\* settles it: falsey under and, truthy under or
ShortCircuits(i) ==
    /\ prog[i].s = "print"
    /\ prog[i].e.x \in {"and", "or"}
    /\ (prog[i].e.x = "or") =
          (OperandValue(prog[i].e.left, results[i].before) \notin {Bool(FALSE), Nil})

\* C13: a logical expression whose left operand is falsey under and, or
\* truthy under or, gives its value without evaluating the right operand:
\* the assignment there is not made and the division there does not fail;
\* in every other case the right operand is evaluated, so false and nil
\* are the only falsey values.
C13_ShortCircuit ==
    \A i \in DOMAIN results :
        (prog[i].s = "print" /\ prog[i].e.x \in {"and", "or"}) =>
            IF ShortCircuits(i)
            THEN /\ results[i].k = "val"
                 /\ results[i].v = Bool(prog[i].e.x = "or")
                 /\ results[i].after = results[i].before
            ELSE IF prog[i].e.right.x = "assign"
            THEN /\ results[i].k = "val"
                 /\ results[i].v = Bool(TRUE)
                 /\ results[i].after["x"] = Num(2)
            ELSE results[i].k = "err" /\ results[i].err = "DivideByZero"

\* print false and (x = 2); and print 1 or (1 / 0); have run: x is still 1
\* and no error was raised
C13_Witness ==
    /\ Len(results) = 3
    /\ prog[2].e = LogicAnd(Lit(Bool(FALSE)), Assignment("x", Two))
    /\ prog[3].e = LogicOr(One, DivZero)
    /\ results[2].v = Bool(FALSE) /\ results[3].v = Bool(TRUE)
    /\ results[3].after["x"] = Num(1)

\* ------------------------------------------------------------------
\* The recursive-descent parser.
\* ------------------------------------------------------------------

\* Token: its TokenType and lexeme
Tok(type, lexeme) == [type |-> type, lexeme |-> lexeme]

\* Option<Token>::None
NoToken == Tok("None", "")

EofToken == Tok("EOF", "")

\* struct Parser; tokens with current stand for the peekable iterator.
\* stalled is bookkeeping: a loop of the parser went through a round
\* without consuming a token.
NewParser(tokens) == [IdleParser EXCEPT !.tokens = tokens]

\* Parser::peek
Peek(p) ==
    IF p.current < Len(p.tokens) THEN p.tokens[p.current + 1] ELSE NoToken

\* Parser::is_at_end
is_at_end(p) == Peek(p).type = "EOF"

\* Parser::advance
advance(p) ==
    IF Peek(p) # NoToken /\ ~is_at_end(p)
    THEN [p EXCEPT !.current = @ + 1, !.previous = Peek(p)]
    ELSE p

\* Parser::matches: whether the next token is one of the list; the caller
\* takes advance(p) as the parser that matched
Matches(p, searchable_list) ==
    ~is_at_end(p) /\ Peek(p) # NoToken /\ Peek(p).type \in searchable_list

\* self.previous.take()
TakePrevious(p) == [p EXCEPT !.previous = NoToken]

\* What a parsing function gives: k is "ok" with the expression or
\* statement e, "err" with the ParserError err, "panic" for a failed expect,
\* unwrap or assert, "hang" for a loop that does not end.
POk(p, e) == [p |-> p, k |-> "ok", e |-> e, err |-> ""]
PErr(p, err) == [p |-> p, k |-> "err", e |-> [x |-> "none"], err |-> err]
PPanic(p) == [p |-> p, k |-> "panic", e |-> [x |-> "none"], err |-> ""]
PHang(p) == [p |-> p, k |-> "hang", e |-> [x |-> "none"], err |-> ""]

\* Parser::consume; Ok carries the token advance returns in e
consume(p, expected_token) ==
    IF Peek(p) # NoToken /\ Peek(p).type = expected_token
    THEN POk(advance(p), advance(p).previous)
    ELSE IF Peek(p) # NoToken /\ Peek(p).type # "EOF"
    THEN PErr(p, "InvalidToken")
    ELSE IF Peek(p) # NoToken THEN PErr(p, "UnexpectedEOF")
    ELSE PErr(p, "ExpectedExpression")

SyncKeywords == {"CLASS", "FUN", "VAR", "FOR", "IF", "WHILE", "PRINT", "RETURN"}

RECURSIVE SyncToSemicolon(_)
\* a loop of synchronize that stops after a ";" only, not at a keyword
SyncToSemicolon(p) ==
    IF is_at_end(p) THEN p
    ELSE IF p.previous.type = "SEMICOLON" THEN p
    ELSE IF Peek(p) = NoToken THEN [p EXCEPT !.stalled = TRUE]
    ELSE SyncToSemicolon(advance(p))

RECURSIVE SyncLoop(_)
\* the while loop of Parser::synchronize; with no token left to peek at,
\* advance does nothing and the loop does not end
SyncLoop(p) ==
    IF is_at_end(p) THEN p
    ELSE IF p.previous.type = "SEMICOLON" THEN p
    ELSE IF Peek(p) = NoToken THEN [p EXCEPT !.stalled = TRUE]
    ELSE IF Peek(p).type \in SyncKeywords THEN p
    ELSE SyncLoop(advance(p))

\* the first step of synchronize, here as if it were left out
KeepPosition(p) == p

\* the first step of synchronize: self.advance()
SyncAdvance(p) == advance(p)

\* Parser::synchronize
synchronize(p) == SyncLoop(SyncAdvance(p))

\* the expressions the parser builds
ELit(tok) == [x |-> "lit", inner |-> tok]
EVariable(tok) == [x |-> "var", name |-> tok.lexeme]
EAssignment(name, right) == [x |-> "assign", name |-> name, right |-> right]
EBin(left, operator, right) ==
    [x |-> IF operator.type = "OR" THEN "or"
           ELSE IF operator.type = "AND" THEN "and" ELSE "bin",
     left |-> left, operator |-> operator.type, right |-> right]
EUnary(operator, operand) ==
    [x |-> "unary", operator |-> operator.type, operand |-> operand]
EGroup(inner) == [x |-> "group", inner |-> inner]
ETernary(c, t, f) == [x |-> "ternary", condition |-> c, if_true |-> t, if_false |-> f]
EComma(list) == [x |-> "comma", list |-> list]

Threshold == 10

\* the token types each left-associative rule loops on
LevelOps(level) ==
    CASE level = "or" -> {"OR"}
      [] level = "and" -> {"AND"}
      [] level = "equality" -> {"BANG_EQUAL", "EQUAL_EQUAL"}
      [] level = "comparison" -> {"LESS", "LESS_EQUAL", "GREATER", "GREATER_EQUAL"}
      [] level = "term" -> {"MINUS", "PLUS"}
      [] level = "factor" -> {"STAR", "SLASH", "MODULUS"}

PrimaryOps ==
    {"PLUS", "MINUS", "SLASH", "STAR", "EQUAL_EQUAL", "BANG_EQUAL", "EQUAL",
     "LESS", "GREATER", "LESS_EQUAL", "GREATER_EQUAL"}

RECURSIVE comma_expression(_), expression(_), or(_), and(_), equality(_)
RECURSIVE comparison(_), term(_), factor(_), unary(_), primary(_)
RECURSIVE BinLoop(_, _, _), CommaLoop(_, _), FactorRecover(_, _)

\* In the rules below, CHOOSE res \in { e : r \in {f(p)} } : TRUE is e with
\* r standing for what the call f(p) gave: `let r = f(p); e`.

\* a grammar without precedence levels: every operand is a unary
OperandFlat(level, p) == unary(p)

\* the operand rule of each left-associative rule
Operand(level, p) ==
    CASE level = "or" -> and(p)
      [] level = "and" -> equality(p)
      [] level = "equality" -> comparison(p)
      [] level = "comparison" -> term(p)
      [] level = "term" -> factor(p)
      [] level = "factor" -> unary(p)

\* `while self.matches(ops) { operator = previous.take().expect(..);
\* right = operand()?; expr = .. }` of or, and, equality, comparison, term
\* and factor, and the Ok(expr) that follows it
BinLoop(level, p, expr) ==
    IF Matches(p, LevelOps(level))
    THEN IF advance(p).previous = NoToken THEN PPanic(advance(p))
         ELSE CHOOSE res \in
                { IF r.k # "ok" THEN r
                  ELSE BinLoop(level, r.p,
                               EBin(expr, advance(p).previous, r.e))
                  : r \in {Operand(level, TakePrevious(advance(p)))} } : TRUE
    ELSE POk(p, expr)

\* Parser::primary after "(" expression: consume(RIGHT_PAREN) gave c
GroupClose(inner, c) ==
    IF c.k # "ok" THEN c
    ELSE IF c.e = NoToken THEN PPanic(c.p)
    ELSE POk(c.p, EGroup(inner))

\* Parser::primary after a literal was matched: a bracket right after it
\* is reported and the literal remembered in error_production
LiteralMatched(p) ==
    IF p.previous = NoToken THEN PPanic(p)
    ELSE POk(TakePrevious(
                IF Peek(p).type \in {"LEFT_PAREN", "LEFT_BRACE", "LEFT_SQUARE"}
                THEN [p EXCEPT !.parser_corrupt = TRUE,
                               !.error_production = Append(@, p.previous)]
                ELSE p),
             ELit(p.previous))

\* Parser::primary when nothing matched: an operator is consumed and
\* remembered in error_production
NoPrimary(p) ==
    IF ~is_at_end(p) /\ Matches(p, PrimaryOps)
    THEN PErr([advance(p) EXCEPT !.parser_corrupt = TRUE,
                  !.error_production = Append(@, advance(p).previous)],
              "InvalidToken")
    ELSE PErr([p EXCEPT !.parser_corrupt = TRUE], "ExpectedExpression")

\* Parser::primary
primary(p) ==
    CASE Matches(p, {"IDENTIFIER"}) ->
            IF advance(p).previous = NoToken THEN PPanic(advance(p))
            ELSE POk(TakePrevious(advance(p)), EVariable(advance(p).previous))
      [] Matches(p, {"FALSE", "TRUE", "NIL", "NUMBER", "STRING"}) ->
            LiteralMatched(advance(p))
      [] Matches(p, {"LEFT_PAREN"}) ->
            CHOOSE res \in
              { IF r.k # "ok" THEN r
                ELSE GroupClose(r.e, consume(r.p, "RIGHT_PAREN"))
                : r \in {expression(advance(p))} } : TRUE
      [] OTHER -> NoPrimary(p)

\* Parser::unary
unary(p) ==
    IF Matches(p, {"MINUS", "BANG"})
    THEN IF advance(p).previous = NoToken THEN PPanic(advance(p))
         ELSE CHOOSE res \in
                { IF r.k # "ok" THEN r
                  ELSE IF advance(p).previous.type \notin {"MINUS", "BANG"}
                  THEN PPanic(r.p)
                  ELSE POk(r.p, EUnary(advance(p).previous, r.e))
                  : r \in {unary(TakePrevious(advance(p)))} } : TRUE
    ELSE primary(p)

\* a factor that tries primary once more and gives up
FactorNoRetry(p, counter) == primary(p)

\* the loop of Parser::factor that follows an InvalidToken error: primary
\* is tried for the counter-th time
FactorRecover(p, counter) ==
    CHOOSE res \in
      { CASE m.k = "ok" -> BinLoop("factor", m.p, m.e)
          [] m.k = "err" /\ counter + 1 # Threshold ->
                FactorRecover(m.p, counter + 1)
          [] OTHER -> m
        : m \in {primary(p)} } : TRUE

\* Parser::factor
factor(p) ==
    CHOOSE res \in
      { CASE r.k = "ok" -> BinLoop("factor", r.p, r.e)
          [] r.k = "err" /\ r.err = "InvalidToken" -> FactorRecover(r.p, 1)
          [] OTHER -> r
        : r \in {unary(p)} } : TRUE

\* Parser::term
term(p) ==
    CHOOSE res \in
      { IF r.k # "ok" THEN r ELSE BinLoop("term", r.p, r.e)
        : r \in {factor(p)} } : TRUE

\* Parser::comparison
comparison(p) ==
    CHOOSE res \in
      { IF r.k # "ok" THEN r ELSE BinLoop("comparison", r.p, r.e)
        : r \in {term(p)} } : TRUE

\* Parser::equality: when comparison fails with error productions in the
\* cache, the parser synchronizes, clears the cache and parses a comma
\* expression from there
equality(p) ==
    CHOOSE res \in
      { CASE r.k = "ok" -> BinLoop("equality", r.p, r.e)
          [] r.k = "err" /\ Len(r.p.error_production) > 0 ->
                comma_expression(
                    [synchronize(r.p) EXCEPT !.error_production = <<>>])
          [] OTHER -> r
        : r \in {comparison(p)} } : TRUE

\* Parser::and
and(p) ==
    CHOOSE res \in
      { IF r.k # "ok" THEN r ELSE BinLoop("and", r.p, r.e)
        : r \in {equality(p)} } : TRUE

\* Parser::or
or(p) ==
    CHOOSE res \in
      { IF r.k # "ok" THEN r ELSE BinLoop("or", r.p, r.e)
        : r \in {and(p)} } : TRUE

\* an assignment that takes whatever stands left of "=" as its target
AssignAnyTarget(lval, r) ==
    IF r.k # "ok" THEN r
    ELSE POk(r.p, EAssignment(IF lval.x = "var" THEN lval.name ELSE "", r.e))

\* Parser::assignment after "=": r is the right-hand side
AssignRight(lval, r) ==
    IF r.k # "ok" THEN r
    ELSE IF lval.x = "var" THEN POk(r.p, EAssignment(lval.name, r.e))
    ELSE PErr(r.p, "InvalidAssignmentTarget")

\* Parser::assignment
assignment(p) ==
    CHOOSE res \in
      { CASE l.k = "ok" /\ Matches(l.p, {"EQUAL"}) ->
                IF advance(l.p).previous = NoToken THEN PPanic(advance(l.p))
                ELSE CHOOSE res2 \in
                       { AssignRight(l.e, r)
                         : r \in {expression(TakePrevious(advance(l.p)))} }
                       : TRUE
          [] OTHER -> l
        : l \in {or(p)} } : TRUE

\* Parser::ternary after "?": t is the then expression
TernaryThen(c, t) ==
    IF t.k # "ok" THEN t
    ELSE IF Matches(t.p, {"TERNARYE"})
    THEN CHOOSE res \in
           { IF r.k # "ok" THEN r ELSE POk(r.p, ETernary(c, t.e, r.e))
             : r \in {expression(advance(t.p))} } : TRUE
    ELSE PErr(t.p, "ExpectedExpression")

\* Parser::ternary
ternary(p) ==
    CHOOSE res \in
      { CASE c.k = "ok" /\ Matches(c.p, {"TERNARYC"}) ->
                CHOOSE res2 \in
                  { TernaryThen(c.e, t) : t \in {expression(advance(c.p))} }
                  : TRUE
          [] OTHER -> c
        : c \in {assignment(p)} } : TRUE

\* Parser::expression
expression(p) == ternary(p)

\* the loop of Parser::comma_expression and its result
CommaLoop(p, expr_list) ==
    IF Matches(p, {"COMMA"})
    THEN CHOOSE res \in
           { IF r.k # "ok" THEN r ELSE CommaLoop(r.p, Append(expr_list, r.e))
             : r \in {expression(advance(p))} } : TRUE
    ELSE POk(p, IF Len(expr_list) > 1 THEN EComma(expr_list) ELSE expr_list[1])

\* Parser::comma_expression
comma_expression(p) ==
    CHOOSE res \in
      { IF r.k # "ok" THEN r ELSE CommaLoop(r.p, <<r.e>>)
        : r \in {expression(p)} } : TRUE

\* Parser::parse_expression
parse_expression(p) == comma_expression(p)

\* What the parser gives for a statement: Stmt::ErrStmt from a ParserError
PErrStmt(err) == [s |-> "err", id |-> 0, message |-> err]

RECURSIVE collect(_), BlockLoop(_, _, _)

\* print_statement and expression_statement after consume(SEMICOLON) gave c
ExprSemicolon(kind, val, c) ==
    IF c.k # "ok" THEN c
    ELSE POk(c.p, IF kind = "print" THEN PrintStmt(0, val) ELSE ExprStmt(0, val))

\* print_statement and expression_statement: parse_expression, then
\* consume(SEMICOLON)
ExprParsed(kind, p) ==
    CHOOSE res \in
      { IF r.k # "ok" THEN r
        ELSE ExprSemicolon(kind, r.e, consume(r.p, "SEMICOLON"))
        : r \in {parse_expression(p)} } : TRUE

\* Parser::print_statement
print_statement(p) == ExprParsed("print", p)

\* Parser::expression_statement
expression_statement(p) == ExprParsed("expr", p)

\* Parser::block after consume(RIGHT_BRACE) gave c
BlockClose(block_stmts, c) ==
    IF c.k # "ok" THEN c ELSE POk(c.p, Block(0, block_stmts))

\* the loop of Parser::block, in its n-th round, and the consume that
\* follows it; a loop that has gone through more rounds than there are
\* tokens does not end
BlockLoop(p, block_stmts, n) ==
    IF Peek(p) # NoToken /\ Peek(p).type # "RIGHT_BRACE" /\ ~is_at_end(p)
    THEN CHOOSE res \in
           { CASE r.k # "ok" -> r
               [] r.k = "ok" /\ n > Len(r.p.tokens) -> PHang(r.p)
               [] OTHER ->
                    BlockLoop(IF r.p.current = p.current
                              THEN [r.p EXCEPT !.stalled = TRUE] ELSE r.p,
                              Append(block_stmts, r.e), n + 1)
             : r \in {collect(p)} } : TRUE
    ELSE BlockClose(block_stmts, consume(p, "RIGHT_BRACE"))

\* Parser::block_statement with Parser::block
block_statement(p) == BlockLoop(p, <<>>, 1)

\* Parser::while_statement after consume(RIGHT_PAREN) gave c
WhileParen(condition, c) ==
    IF c.k # "ok" THEN c
    ELSE CHOOSE res \in
           { IF b.k # "ok" THEN b ELSE POk(b.p, While(0, condition, b.e))
             : b \in {collect(c.p)} } : TRUE

\* Parser::while_statement after consume(LEFT_PAREN) gave c
WhileOpen(c) ==
    IF c.k # "ok" THEN c
    ELSE CHOOSE res \in
           { IF r.k # "ok" THEN r
             ELSE WhileParen(r.e, consume(r.p, "RIGHT_PAREN"))
             : r \in {expression(c.p)} } : TRUE

\* Parser::while_statement
while_statement(p) == WhileOpen(consume(p, "LEFT_PAREN"))

\* Parser::if_statement after the then branch t was collected
IfThenCollected(condition, t) ==
    IF t.k # "ok" THEN t
    ELSE IF Matches(t.p, {"ELSE"})
    THEN CHOOSE res \in
           { IF e.k # "ok" THEN e
             ELSE POk(e.p, IfStmt(0, condition, t.e, e.e))
             : e \in {collect(advance(t.p))} } : TRUE
    ELSE POk(t.p, IfStmt(0, condition, t.e, NoStmt))

\* Parser::if_statement after consume(RIGHT_PAREN) gave c
IfParen(condition, c) ==
    IF c.k # "ok" THEN c
    ELSE CHOOSE res \in
           { IfThenCollected(condition, t) : t \in {collect(c.p)} } : TRUE

\* Parser::if_statement after consume(LEFT_PAREN) gave c
IfOpen(c) ==
    IF c.k # "ok" THEN c
    ELSE CHOOSE res \in
           { IF r.k # "ok" THEN r
             ELSE IfParen(r.e, consume(r.p, "RIGHT_PAREN"))
             : r \in {expression(c.p)} } : TRUE

\* Parser::if_statement
if_statement(p) == IfOpen(consume(p, "LEFT_PAREN"))

\* Parser::statement: an error of the statement synchronizes the parser
\* and becomes an ErrStmt
statement(p) ==
    IF Matches(p, {"COMMENT", "MULTI_LINE_COMMENT"})
    THEN POk(advance(p), EmptyStmt(0))
    ELSE CHOOSE res \in
           { IF r.k = "err" THEN POk(synchronize(r.p), PErrStmt(r.err)) ELSE r
             : r \in { CASE Matches(p, {"PRINT"}) ->
                                print_statement(advance(p))
                         [] Matches(p, {"LEFT_BRACE"}) ->
                                block_statement(advance(p))
                         [] Matches(p, {"IF"}) -> if_statement(advance(p))
                         [] Matches(p, {"WHILE"}) ->
                                while_statement(advance(p))
                         [] OTHER -> expression_statement(p) } } : TRUE

\* Parser::var_declaration after consume(SEMICOLON) gave c; with an
\* initializer the semicolon is taken out of previous
VarSemicolon(name, initializer, c) ==
    IF c.k # "ok" THEN c
    ELSE IF initializer.x = "none" THEN POk(c.p, VarDecl(0, name, initializer))
    ELSE IF c.p.previous = NoToken THEN PPanic(c.p)
    ELSE POk(TakePrevious(c.p), VarDecl(0, name, initializer))

\* Parser::var_declaration after the identifier was matched and taken
VarNamed(name, p) ==
    IF Matches(p, {"EQUAL"})
    THEN CHOOSE res \in
           { IF r.k # "ok" THEN r
             ELSE VarSemicolon(name, r.e, consume(r.p, "SEMICOLON"))
             : r \in {expression(advance(p))} } : TRUE
    ELSE VarSemicolon(name, NoExpr, consume(p, "SEMICOLON"))

\* Parser::var_declaration
var_declaration(p) ==
    IF Matches(p, {"IDENTIFIER"})
    THEN IF advance(p).previous = NoToken THEN PPanic(advance(p))
         ELSE VarNamed(advance(p).previous.lexeme, TakePrevious(advance(p)))
    ELSE PErr(synchronize(p), "IllegalStmt")

\* Parser::collect: an error of var_declaration becomes an ErrStmt
collect(p) ==
    IF Matches(p, {"VAR"})
    THEN CHOOSE res \in
           { IF r.k = "err" THEN POk(r.p, PErrStmt(r.err)) ELSE r
             : r \in {var_declaration(advance(p))} } : TRUE
    ELSE statement(p)

\* ------------------------------------------------------------------
\* Parser::parse over every sequence of at most MaxLen tokens of
\* Alphabet, at most MaxParens of them "(", ended by EOF.
\* ------------------------------------------------------------------

\* the longest sequence of tokens before EOF
MaxLen == 4

\* the most "(" in a sequence: how deep groups nest
MaxParens == 2

Alphabet ==
    { Tok("NUMBER", "1"), Tok("IDENTIFIER", "x"), Tok("PLUS", "+"),
      Tok("EQUAL", "="), Tok("SEMICOLON", ";"), Tok("LEFT_PAREN", "("),
      Tok("RIGHT_PAREN", ")"), Tok("LEFT_BRACE", "{"), Tok("RIGHT_BRACE", "}"),
      Tok("VAR", "var"), Tok("WHILE", "while") }

\* no parser yet
InitParse ==
    /\ parser = IdleParser
    /\ parsed = <<>>
    /\ pstatus = "idle"
    /\ consumed = <<>>
    /\ scanner = IdleScanner
    /\ heap = <<DefaultEnvironment>> /\ crashed = FALSE
    /\ made = <<NoEnv>> /\ last = NoOp /\ nops = 0
    /\ prog = <<>> /\ pc = 0 /\ out = <<>> /\ results = <<>> /\ previous = 0

\* how many "(" a sequence of tokens holds
RECURSIVE Parens(_)
Parens(ts) ==
    IF ts = <<>> THEN 0
    ELSE Parens(Tail(ts)) + (IF Head(ts).type = "LEFT_PAREN" THEN 1 ELSE 0)

\* Parser::new(tokens) and the call of parse, tokens being what the
\* scanner gives: ended by EOF
ParserNew ==
    /\ pstatus = "idle"
    /\ \E n \in 0..MaxLen :
         \E ts \in [1..n -> Alphabet] :
            /\ Parens(ts) <= MaxParens
            /\ parser' = NewParser(Append(ts, EofToken))
    /\ pstatus' = "parsing"
    /\ UNCHANGED <<parsed, consumed, heap, crashed, envVars, runVars,
                 scanVars>>

\* the end of a round of the loop of parse: collect gave r
ParseCollected(r) ==
    /\ parser' = r.p
    /\ consumed' = Append(consumed, r.p.current - parser.current)
    /\ IF r.k = "ok"
       THEN parsed' = Append(parsed, r.e) /\ pstatus' = "parsing"
       ELSE parsed' = parsed /\ pstatus' = r.k

\* a round of the loop of Parser::parse: stmts.push(self.collect())
ParseStep ==
    /\ pstatus = "parsing"
    /\ ~is_at_end(parser)
    /\ \E r \in {collect(parser)} : ParseCollected(r)
    /\ UNCHANGED <<heap, crashed, envVars, runVars,
                 scanVars>>

\* the loop of Parser::parse ends at EOF and parse returns stmts
ParseReturn ==
    /\ pstatus = "parsing"
    /\ is_at_end(parser)
    /\ pstatus' = "done"
    /\ UNCHANGED <<parser, parsed, consumed, heap, crashed, envVars, runVars,
                 scanVars>>

NextParse == ParserNew \/ ParseStep \/ ParseReturn

SpecParse == InitParse /\ [][NextParse]_vars

StmtKinds ==
    {"expr", "print", "err", "empty", "block", "if", "while", "vardecl"}

RECURSIVE Sum(_)
Sum(ns) == IF ns = <<>> THEN 0 ELSE Head(ns) + Sum(Tail(ns))

\* no panic and no endless loop, every round of the loop of parse has
\* pushed one statement and consumed at least one token, and so has every
\* round of the loop of block
ParseSafe ==
    /\ pstatus \in {"idle", "parsing", "done"}
    /\ ~parser.stalled
    /\ Len(parsed) = Len(consumed)
    /\ \A i \in DOMAIN consumed : consumed[i] >= 1
    /\ \A i \in DOMAIN parsed : parsed[i].s \in StmtKinds

\* the loop of parse ends: the rounds made have consumed the tokens up to
\* the position of the parser, which stays before EOF, so that no more
\* rounds are made than there are tokens; and parse returns at EOF only
ParseEnds ==
    /\ Sum(consumed) = parser.current
    /\ pstatus # "idle" =>
          /\ parser.current < Len(parser.tokens)
          /\ Len(parsed) < Len(parser.tokens)
    /\ pstatus = "done" => is_at_end(parser)

\* C1: for every token sequence ended by EOF, parse returns its list of
\* statements: it never panics and never gives an error instead of a
\* statement (a malformed statement is an ErrStmt of the list), every round
\* of the loop of parse and of the loop of block consumes at least one
\* token, and the loop ends after at most as many rounds as there are
\* tokens before EOF.
C1_ParseTotal == ParseSafe /\ ParseEnds

\* parse has returned a block whose loop collected a malformed statement
\* as an ErrStmt, after another top-level statement
C1_Witness ==
    /\ pstatus = "done"
    /\ Len(parsed) = 2
    /\ parsed[2].s = "block"
    /\ Len(parsed[2].stmts) = 1
    /\ parsed[2].stmts[1].s = "err"

\* ------------------------------------------------------------------
\* Parser::parse over programs put together from statements, one to a
\* line: recovery from syntax mistakes.
\* ------------------------------------------------------------------

\* the most lines of a program
MaxLines == 2

\* 1+3+4/ : an expression that ends in a binary operator
IllegalTermination ==
    <<Tok("NUMBER", "1"), Tok("PLUS", "+"), Tok("NUMBER", "3"),
      Tok("PLUS", "+"), Tok("NUMBER", "4"), Tok("SLASH", "/")>>

\* statements without a syntax mistake
WellFormed ==
    { \* print 1;
      <<Tok("PRINT", "print"), Tok("NUMBER", "1"),
        Tok("SEMICOLON", ";")>>,
      \* var a = 1;
      <<Tok("VAR", "var"), Tok("IDENTIFIER", "a"), Tok("EQUAL", "="),
        Tok("NUMBER", "1"), Tok("SEMICOLON", ";")>>,
      \* a;
      <<Tok("IDENTIFIER", "a"), Tok("SEMICOLON", ";")>>,
      \* -1;
      <<Tok("MINUS", "-"), Tok("NUMBER", "1"), Tok("SEMICOLON", ";")>>,
      \* { a; }
      <<Tok("LEFT_BRACE", "{"), Tok("IDENTIFIER", "a"),
        Tok("SEMICOLON", ";"), Tok("RIGHT_BRACE", "}")>>,
      \* if (a) print 1;
      <<Tok("IF", "if"), Tok("LEFT_PAREN", "("),
        Tok("IDENTIFIER", "a"), Tok("RIGHT_PAREN", ")"),
        Tok("PRINT", "print"), Tok("NUMBER", "1"),
        Tok("SEMICOLON", ";")>>,
      \* while (a) a;
      <<Tok("WHILE", "while"), Tok("LEFT_PAREN", "("),
        Tok("IDENTIFIER", "a"), Tok("RIGHT_PAREN", ")"),
        Tok("IDENTIFIER", "a"), Tok("SEMICOLON", ";")>>,
      \* b = a = 2;
      <<Tok("IDENTIFIER", "b"), Tok("EQUAL", "="),
        Tok("IDENTIFIER", "a"), Tok("EQUAL", "="), Tok("NUMBER", "2"),
        Tok("SEMICOLON", ";")>> }

\* assignments to something that is not a bare variable
BadTargets ==
    { \* 1 = 2;
      <<Tok("NUMBER", "1"), Tok("EQUAL", "="), Tok("NUMBER", "2"),
        Tok("SEMICOLON", ";")>>,
      \* (a) = 3;
      <<Tok("LEFT_PAREN", "("), Tok("IDENTIFIER", "a"),
        Tok("RIGHT_PAREN", ")"), Tok("EQUAL", "="), Tok("NUMBER", "3"),
        Tok("SEMICOLON", ";")>>,
      \* a + b = c;
      <<Tok("IDENTIFIER", "a"), Tok("PLUS", "+"),
        Tok("IDENTIFIER", "b"), Tok("EQUAL", "="),
        Tok("IDENTIFIER", "c"), Tok("SEMICOLON", ";")>> }

\* b = a = 2;
ChainedAssignment ==
    <<Tok("IDENTIFIER", "b"), Tok("EQUAL", "="),
      Tok("IDENTIFIER", "a"), Tok("EQUAL", "="), Tok("NUMBER", "2"),
      Tok("SEMICOLON", ";")>>

\* statements that miss an operand, an identifier or a parenthesis, each
\* ended by its ";"
MissingParts ==
    { \* var a = ;
      <<Tok("VAR", "var"), Tok("IDENTIFIER", "a"), Tok("EQUAL", "="),
        Tok("SEMICOLON", ";")>>,
      \* var = 1;
      <<Tok("VAR", "var"), Tok("EQUAL", "="), Tok("NUMBER", "1"),
        Tok("SEMICOLON", ";")>>,
      \* print ;
      <<Tok("PRINT", "print"), Tok("SEMICOLON", ";")>>,
      \* if a;
      <<Tok("IF", "if"), Tok("IDENTIFIER", "a"), Tok("SEMICOLON", ";")>>,
      \* while a;
      <<Tok("WHILE", "while"), Tok("IDENTIFIER", "a"),
        Tok("SEMICOLON", ";")>>,
      \* 1 + ;
      <<Tok("NUMBER", "1"), Tok("PLUS", "+"), Tok("SEMICOLON", ";")>> }

\* statements with one syntax mistake
Malformed == MissingParts \cup BadTargets

StatementLines == {IllegalTermination} \cup WellFormed \cup Malformed

\* the tokens of the lines ls, one after the other
RECURSIVE Flatten(_)
Flatten(ls) == IF ls = <<>> THEN <<>> ELSE Head(ls) \o Flatten(Tail(ls))

\* Parser::new(tokens) and the call of parse, tokens being what the
\* scanner gives for a program of at most MaxLines lines
LinesNew ==
    /\ pstatus = "idle"
    /\ \E n \in 1..MaxLines :
         \E ls \in [1..n -> StatementLines] :
            parser' = NewParser(Append(Flatten(ls), EofToken))
    /\ pstatus' = "parsing"
    /\ UNCHANGED <<parsed, consumed, heap, crashed, envVars, runVars,
                 scanVars>>

NextLines == LinesNew \/ ParseStep \/ ParseReturn

SpecLines == InitParse /\ [][NextLines]_vars

\* the tokens of the program made of the lines a and b
TwoLines(a, b) == Append(a \o b, EofToken)

\* what the statement w parses to on its own
StmtOf(w) == collect(NewParser(Append(w, EofToken))).e

\* the line w begins with a keyword that starts a statement, so that it
\* cannot be read as the missing operand of the line before it
StartsStatement(w) == Head(w).type \in SyncKeywords

\* C14: when parse has returned for 1+3+4/ followed by a well-formed
\* statement that begins with a keyword, it has yielded the ErrStmt of
\* ExpectedExpression for the first line and then the statement of the
\* second line.
C14_IllegalTerminationRecovers ==
    \A w \in WellFormed :
        ( /\ StartsStatement(w)
          /\ pstatus = "done"
          /\ parser.tokens = TwoLines(IllegalTermination, w) )
        => parsed = <<PErrStmt("ExpectedExpression"), StmtOf(w)>>

\* C16: when parse has returned for a statement with one syntax mistake
\* followed by a well-formed statement, it has yielded one ErrStmt and then
\* the statement of the second line.
C16_OneMistakeOneErrStmt ==
    \A m \in Malformed : \A w \in WellFormed :
        (pstatus = "done" /\ parser.tokens = TwoLines(m, w))
        => /\ Len(parsed) = 2
           /\ parsed[1].s = "err"
           /\ parsed[2] = StmtOf(w)

\* C17: a statement that assigns to something that is not a bare variable
\* is parsed to the ErrStmt of InvalidAssignmentTarget, whatever follows it,
\* and b = a = 2; is parsed to the assignment to b of the assignment to a
\* of 2.
C17_AssignmentTargets ==
    pstatus = "done" =>
        /\ \A m \in BadTargets :
              (Len(parser.tokens) > Len(m) /\ SubSeq(parser.tokens, 1, Len(m)) = m)
              => parsed[1] = PErrStmt("InvalidAssignmentTarget")
        /\ parser.tokens = Append(ChainedAssignment, EofToken)
              => parsed = << ExprStmt(0, EAssignment("b",
                                 EAssignment("a", ELit(Tok("NUMBER", "2"))))) >>

\* parse has returned for (a) = 3; b = a = 2; with the ErrStmt of
\* InvalidAssignmentTarget and the right-nested assignment
C17_Witness ==
    /\ pstatus = "done"
    /\ \E m \in BadTargets :
          /\ m[1].type = "LEFT_PAREN"
          /\ parser.tokens = TwoLines(m, ChainedAssignment)
    /\ Len(parsed) = 2
    /\ parsed[1] = PErrStmt("InvalidAssignmentTarget")
    /\ parsed[2].e.x = "assign" /\ parsed[2].e.name = "b"
    /\ parsed[2].e.right.x = "assign" /\ parsed[2].e.right.name = "a"

\* ------------------------------------------------------------------
\* Parser::synchronize called at any position of any sequence of at most
\* MaxSyncLen tokens of SyncAlphabet ended by EOF.
\* ------------------------------------------------------------------

\* the longest sequence of tokens before EOF
MaxSyncLen == 3

SyncAlphabet ==
    { Tok("NUMBER", "1"), Tok("PLUS", "+"), Tok("SEMICOLON", ";"),
      Tok("RIGHT_BRACE", "}"), Tok("VAR", "var"), Tok("PRINT", "print") }

\* a parser that has consumed the first c tokens of ts; previous is the
\* last of them, or None when a rule has taken it
ParserAt(ts, c, taken) ==
    [NewParser(ts) EXCEPT
        !.current = c,
        !.previous = IF c = 0 \/ taken THEN NoToken ELSE ts[c]]

\* a parser in the middle of its tokens, about to call synchronize
SyncNew ==
    /\ pstatus = "idle"
    /\ \E n \in 0..MaxSyncLen :
         \E ts \in [1..n -> SyncAlphabet] :
            \E c \in 0..n : \E taken \in BOOLEAN :
               parser' = ParserAt(Append(ts, EofToken), c, taken)
    /\ pstatus' = "parsing"
    /\ UNCHANGED <<parsed, consumed, heap, crashed, envVars, runVars,
                 scanVars>>

\* the call of Parser::synchronize; consumed gets the number of tokens it
\* discarded
SyncCall ==
    /\ pstatus = "parsing"
    /\ parser' = synchronize(parser)
    /\ consumed' = <<synchronize(parser).current - parser.current>>
    /\ pstatus' = "done"
    /\ UNCHANGED <<parsed, heap, crashed, envVars, runVars,
                 scanVars>>

NextSync == SyncNew \/ SyncCall

SpecSync == InitParse /\ [][NextSync]_vars

\* the position synchronize was called at
SyncFrom == parser.current - consumed[1]

EAcute == "e-acute"

\* Option<char>::None
NoChar == "none"

\* char::len_utf8
LenUtf8(ch) == IF ch = EAcute THEN 2 ELSE 1

\* str::len, the length of the source in bytes
RECURSIVE ByteLen(_)
ByteLen(src) ==
    IF src = <<>> THEN 0 ELSE LenUtf8(Head(src)) + ByteLen(Tail(src))

\* the bytes of the source
RECURSIVE Bytes(_)
Bytes(src) ==
    IF src = <<>> THEN <<>>
    ELSE (IF Head(src) = EAcute THEN <<"C3", "A9">> ELSE <<Head(src)>>)
            \o Bytes(Tail(src))

\* str::is_char_boundary
IsCharBoundary(src, i) ==
    \E k \in 0..Len(src) : ByteLen(SubSeq(src, 1, k)) = i

\* whether &source[a..b] is a slice: it panics otherwise
SliceOk(src, a, b) ==
    a <= b /\ b <= ByteLen(src) /\ IsCharBoundary(src, a) /\ IsCharBoundary(src, b)

\* &source[a..b]
Slice(src, a, b) == SubSeq(Bytes(src), a + 1, b)

\* char::is_ascii_digit, char::is_ascii_alphabetic (or '_') on the
\* characters explored
ScannerIsDigit(ch) == ch = "1"
ScannerIsAlpha(ch) == ch \in {"o", "r"}

\* KEYWORDS.get on the lexemes that the characters explored can spell
Keywords(lexeme) == IF lexeme = <<"o", "r">> THEN "OR" ELSE "IDENTIFIER"

\* Scanner::new
NewScanner(source) ==
    [source |-> source, current |-> 0, start |-> 0, tokens |-> <<>>,
     status |-> "scanning"]

\* a panic inside the scanner
ScannerPanic(sc) == [sc EXCEPT !.status = "panic"]

\* Scanner::is_at_end: current against the length in bytes
ScannerIsAtEnd(sc) == sc.current >= ByteLen(sc.source)

\* Scanner::peek: the next character of the chars iterator, which has
\* given as many characters as current counts
ScannerPeek(sc) ==
    IF sc.current < Len(sc.source) THEN sc.source[sc.current + 1] ELSE NoChar

\* Scanner::peek_next: source.chars().nth(current + 1)
peek_next(sc) ==
    IF sc.current + 1 < Len(sc.source) THEN sc.source[sc.current + 2]
    ELSE NoChar

\* Scanner::advance: current grows by one for each character
ScannerAdvance(sc) ==
    IF ScannerPeek(sc) # NoChar THEN [sc EXCEPT !.current = @ + 1] ELSE sc

\* Scanner::add_token and add_token_col: the lexeme is source[start..current]
add_token(sc, type) ==
    IF sc.status = "panic" THEN sc
    ELSE IF ~SliceOk(sc.source, sc.start, sc.current) THEN ScannerPanic(sc)
    ELSE [sc EXCEPT !.tokens =
             Append(@, Tok(type, Slice(sc.source, sc.start, sc.current)))]

\* Scanner::next_match: whether the next character is the expected one;
\* the caller takes ScannerAdvance(sc) as the scanner that matched
next_match(sc, expected) ==
    ~ScannerIsAtEnd(sc) /\ ScannerPeek(sc) = expected

\* the loop of a // comment: up to and with the end of the line
RECURSIVE LineComment(_)
LineComment(sc) ==
    IF ScannerPeek(sc) = NoChar THEN sc
    ELSE IF ScannerPeek(sc) = "\n" THEN ScannerAdvance(sc)
    ELSE LineComment(ScannerAdvance(sc))

\* the loop of a /* comment: up to and with the closing */, or to the end
\* of the source when the comment is not closed
RECURSIVE BlockComment(_)
BlockComment(sc) ==
    IF ScannerPeek(sc) # NoChar /\ peek_next(sc) # NoChar
    THEN IF ScannerPeek(sc) = "*" /\ peek_next(sc) = "/"
         THEN ScannerAdvance(ScannerAdvance(sc))
         ELSE BlockComment(ScannerAdvance(sc))
    ELSE IF ScannerPeek(sc) # NoChar THEN ScannerAdvance(sc)
    ELSE sc

\* Scanner::scan_string: up to the closing quote, the lexeme without the
\* quotes; an unclosed string gives no token
RECURSIVE scan_string(_)
scan_string(sc) ==
    IF ScannerPeek(sc) = NoChar THEN sc
    ELSE IF ScannerPeek(sc) = "\""
    THEN IF ~SliceOk(sc.source, sc.start + 1, sc.current)
         THEN ScannerPanic(ScannerAdvance(sc))
         ELSE [ScannerAdvance(sc) EXCEPT !.tokens =
                  Append(@, Tok("STRING",
                                Slice(sc.source, sc.start + 1, sc.current)))]
    ELSE scan_string(ScannerAdvance(sc))

\* Scanner::scan_number: digits with at most one decimal point
RECURSIVE scan_number(_, _)
scan_number(sc, decimal_set) ==
    IF ScannerIsDigit(ScannerPeek(sc))
    THEN scan_number(ScannerAdvance(sc), decimal_set)
    ELSE IF ScannerPeek(sc) = "." /\ ~decimal_set
    THEN scan_number(ScannerAdvance(sc), TRUE)
    ELSE add_token(sc, "NUMBER")

\* Scanner::identifier: letters and digits, then the keyword table
RECURSIVE identifier(_)
identifier(sc) ==
    IF ScannerIsAlpha(ScannerPeek(sc)) \/ ScannerIsDigit(ScannerPeek(sc))
    THEN identifier(ScannerAdvance(sc))
    ELSE IF ~SliceOk(sc.source, sc.start, sc.current) THEN ScannerPanic(sc)
    ELSE add_token(sc, Keywords(Slice(sc.source, sc.start, sc.current)))

\* the "/" arm of scan_single_token: a comment or a division operator
SlashArm(sc) ==
    IF next_match(sc, "/")
    THEN add_token(LineComment(ScannerAdvance(sc)), "COMMENT")
    ELSE IF next_match(sc, "*")
    THEN add_token(BlockComment(ScannerAdvance(sc)), "MULTI_LINE_COMMENT")
    ELSE add_token(sc, "SLASH")

\* the match of scan_single_token on the character c that advance gave;
\* a character that starts no lexeme is reported and skipped
ScanMatch(c, sc) ==
    CASE c = "*" -> add_token(sc, "STAR")
      [] c = "\n" -> sc
      [] c = "/" -> SlashArm(sc)
      [] c = "\"" -> scan_string(sc)
      [] ScannerIsDigit(c) -> scan_number(sc, FALSE)
      [] ScannerIsAlpha(c) -> identifier(sc)
      [] OTHER -> sc

\* the end of scan_single_token: start is set to the next lexeme
ScanSingleEnd(sc) ==
    IF sc.status = "panic" THEN sc ELSE [sc EXCEPT !.start = sc.current]

\* Scanner::scan_single_token; when advance gives None it returns at once
scan_single_token(sc) ==
    IF ScannerPeek(sc) = NoChar THEN sc
    ELSE ScanSingleEnd(ScanMatch(ScannerPeek(sc), ScannerAdvance(sc)))

\* the longest source, in characters
MaxSource == 4

SourceChars == {"o", "r", "1", ".", "\"", "/", "*", "\n", EAcute}

\* Scanner::new(source, lox) and the call of scan_tokens
ScannerNew ==
    /\ scanner.status = "idle"
    /\ \E n \in 0..MaxSource :
         \E src \in [1..n -> SourceChars] : scanner' = NewScanner(src)
    /\ UNCHANGED <<heap, crashed, envVars, runVars, parseVars>>

\* a round of the loop of scan_tokens.  A round in which advance gives
\* None changes nothing, so the loop goes through it again without end.
ScanRound ==
    /\ scanner.status = "scanning"
    /\ ~ScannerIsAtEnd(scanner)
    /\ scanner' =
          IF ScannerPeek(scanner) = NoChar
          THEN [scanner EXCEPT !.start = scanner.current, !.status = "hang"]
          ELSE scan_single_token([scanner EXCEPT !.start = scanner.current])
    /\ UNCHANGED <<heap, crashed, envVars, runVars, parseVars>>

\* the loop of scan_tokens ends, EOF is pushed and scan_tokens returns
ScanReturn ==
    /\ scanner.status = "scanning"
    /\ ScannerIsAtEnd(scanner)
    /\ scanner' = [scanner EXCEPT !.tokens = Append(@, Tok("EOF", <<>>)),
                                  !.status = "done"]
    /\ UNCHANGED <<heap, crashed, envVars, runVars, parseVars>>

NextScan == ScannerNew \/ ScanRound \/ ScanReturn

SpecScan == InitParse /\ [][NextScan]_vars

\* C18: scan_tokens neither panics nor loops without end; while it runs
\* every token pushed is other than EOF and no more tokens are pushed
\* than characters consumed; when it has returned, the last token and
\* only the last is EOF and current is the length of the source.
C18_ScanTotal ==
    /\ scanner.status \in {"idle", "scanning", "done"}
    /\ scanner.current <= ByteLen(scanner.source)
    /\ Len(scanner.tokens) <= scanner.current + 1
    /\ \A i \in DOMAIN scanner.tokens :
          (scanner.tokens[i].type = "EOF") =
             (scanner.status = "done" /\ i = Len(scanner.tokens))
    /\ scanner.status = "done" =>
          /\ scanner.tokens # <<>>
          /\ scanner.current = ByteLen(scanner.source)

\* ------------------------------------------------------------------
\* Chains of binary operators: the statement a op b op c ... ; for every
\* choice of at most MaxChainOps operators.
\* ------------------------------------------------------------------

MaxChainOps == 3

OpTokens ==
    {Tok("OR", "or"), Tok("AND", "and"),
     Tok("EQUAL_EQUAL", "=="), Tok("BANG_EQUAL", "!="),
     Tok("LESS", "<"), Tok("LESS_EQUAL", "<="),
     Tok("GREATER", ">"), Tok("GREATER_EQUAL", ">="),
     Tok("MINUS", "-"), Tok("PLUS", "+"),
     Tok("SLASH", "/"), Tok("STAR", "*")}

\* the i-th operand of a chain
OperandTok(i) == Tok("IDENTIFIER", <<"a", "b", "c", "d", "e">>[i])

\* the tokens of the statement that chains the operators ops
ChainTokens(ops) ==
    [i \in 1..(2 * Len(ops) + 1) |->
        IF i % 2 = 1 THEN OperandTok((i + 1) \div 2) ELSE ops[i \div 2]]
    \o <<Tok("SEMICOLON", ";"), EofToken>>

\* Parser::new(tokens) and the call of parse for a chain of operators
ChainNew ==
    /\ pstatus = "idle"
    /\ \E n \in 1..MaxChainOps :
         \E ops \in [1..n -> OpTokens] :
            parser' = NewParser(ChainTokens(ops))
    /\ pstatus' = "parsing"
    /\ UNCHANGED <<parsed, consumed, heap, crashed, envVars, runVars,
                 scanVars>>

NextChains == ChainNew \/ ParseStep \/ ParseReturn

SpecChains == InitParse /\ [][NextChains]_vars

\* the precedence level of an operator, the loosest being 1
Precedence(type) ==
    CASE type = "OR" -> 1
      [] type = "AND" -> 2
      [] type \in {"EQUAL_EQUAL", "BANG_EQUAL"} -> 3
      [] type \in {"LESS", "LESS_EQUAL", "GREATER", "GREATER_EQUAL"} -> 4
      [] type \in {"MINUS", "PLUS"} -> 5
      [] type \in {"SLASH", "STAR"} -> 6

\* the operator that is applied last among ops[lo..hi]: the rightmost one
\* of the loosest level
LastApplied(ops, lo, hi) ==
    CHOOSE k \in lo..hi :
        \A j \in lo..hi :
            \/ Precedence(ops[j].type) > Precedence(ops[k].type)
            \/ (Precedence(ops[j].type) = Precedence(ops[k].type) /\ j <= k)

\* the tree of operands lo..hi of the chain: left-nested within a level,
\* a tighter level below a looser one
RECURSIVE ChainTree(_, _, _)
ChainTree(ops, lo, hi) ==
    IF lo = hi THEN EVariable(OperandTok(lo))
    ELSE EBin(ChainTree(ops, lo, LastApplied(ops, lo, hi - 1)),
              ops[LastApplied(ops, lo, hi - 1)],
              ChainTree(ops, LastApplied(ops, lo, hi - 1) + 1, hi))

\* the operators of the chain being parsed
ChainOps ==
    [i \in 1..((Len(parser.tokens) - 3) \div 2) |-> parser.tokens[2 * i]]

\* C24: when parse has returned for a chain of binary operators, it has
\* yielded one expression statement whose tree nests operators of one
\* level to the left and puts an operator of a tighter level below one
\* of a looser level.
C24_LeftNestedByLevel ==
    pstatus = "done" =>
        parsed = <<ExprStmt(0, ChainTree(ChainOps, 1, Len(ChainOps) + 1))>>

\* a or b - c - d has been parsed to a or ((b - c) - d)
C24_Witness ==
    /\ pstatus = "done" /\ Len(ChainOps) = 3 /\ Len(parsed) = 1
    /\ ChainOps[1].type = "OR"
    /\ ChainOps[2].type = "MINUS" /\ ChainOps[3].type = "MINUS"
    /\ parsed[1].e.x = "or" /\ parsed[1].e.left.name = "a"
    /\ parsed[1].e.right.x = "bin" /\ parsed[1].e.right.right.name = "d"
    /\ parsed[1].e.right.left.x = "bin"
    /\ parsed[1].e.right.left.left.name = "b"

\* ------------------------------------------------------------------
\* Expressions with a missing left operand: at most MaxStray binary
\* operators, with or without a "-" in front, then 4 / 62 ;
\* ------------------------------------------------------------------

MaxStray == 10

StrayOps == {Tok("PLUS", "+"), Tok("STAR", "*")}

\* 4 / 62 ;
OperandExpression ==
    <<Tok("NUMBER", "4"), Tok("SLASH", "/"), Tok("NUMBER", "62"),
      Tok("SEMICOLON", ";"), EofToken>>

\* Parser::new(tokens) and the call of parse for such an expression
StrayNew ==
    /\ pstatus = "idle"
    /\ \E n \in 1..MaxStray :
         \E ops \in [1..n -> StrayOps] :
            \E minus \in {<<>>, <<Tok("MINUS", "-")>>} :
               parser' = NewParser(minus \o ops \o OperandExpression)
    /\ pstatus' = "parsing"
    /\ UNCHANGED <<parsed, consumed, heap, crashed, envVars, runVars,
                 scanVars>>

NextStray == StrayNew \/ ParseStep \/ ParseReturn

SpecStray == InitParse /\ [][NextStray]_vars

IsStray(tok) == tok \in StrayOps

\* the stray operators of the statement being parsed
Strays == SelectSeq(parser.tokens, IsStray)

====
